---- MODULE Spec2Model ----
(***************************************************************************)
(* The daily shipment reconciliation pipeline of lexCoverzy                *)
(* (backend/cron/coverzyCron.js, its cutoff-only generation, and           *)
(* backend/smtp/errorEmail.js), as a state machine.                        *)
(*                                                                         *)
(* Strings that the code inspects character by character (country codes,   *)
(* company names) are sequences of one-character strings.  A time of day   *)
(* "HH:MM:SS" is the tuple <<HH, MM, SS>> of its three numeric fields, and *)
(* a pickup timestamp "YYYY-MM-DD HH:MM:SS" is a record of its two         *)
(* space-separated parts.                                                  *)
(***************************************************************************)
EXTENDS Integers, Sequences, FiniteSets, TLC

VARIABLES
    call,               \* pure-function harness: the function applied and its arguments
    ret,                \* pure-function harness: its result, or Pending
    variant,            \* the deployed generation of the cron module: "A" (cutoff/CIP
                        \* window) or "B" (cutoff only, with service and value rules)
    coverzy_settings,   \* table coverzy_settings, oldest row first
    coverzy_shipments,  \* table coverzy_shipments
    cron_error_logs,    \* table cron_error_logs
    pc,                 \* position of processPreviousDayShipments
    settings,           \* the run's settings object
    awbNumbers,         \* the run's listing
    i,                  \* index of the validation loop (1-based)
    validShipments,
    invalidShipments,
    shipmentsToProcess,
    j,                  \* index of the processing loop (1-based)
    results,
    processingErrors,
    caught,             \* the error on its way to the outer catch
    outcome,            \* what the run gave its caller: a result or a raised error
    notifyLog,          \* calls of sendDailySummaryEmail / sendCronErrorEmail, with what they returned
    mailLog,            \* calls of transporter.sendMail
    callLog,            \* the run's calls of its collaborators, in order, each with
                        \* whether it returned normally ("response": whether the
                        \* underwriting answer had status success and a policy id)
    forDate,            \* a run of processShipmentsForDate started by the manual
                        \* trigger: its position, locals, calls and outcome
    http                \* the scheduled run's traffic with the platform and the
                        \* underwriting API: the await it is suspended at, the
                        \* answers received in the current loop iteration, and
                        \* the number of requests in flight

vars == <<call, ret, variant, coverzy_settings, coverzy_shipments, cron_error_logs, pc,
          settings, awbNumbers, i, validShipments, invalidShipments, shipmentsToProcess,
          j, results, processingErrors, caught, outcome, notifyLog, mailLog, callLog,
          forDate, http>>

pureVars == <<call, ret>>

dbVars == <<coverzy_settings, coverzy_shipments, cron_error_logs>>

runVars == <<variant, pc, settings, awbNumbers, i, validShipments, invalidShipments,
             shipmentsToProcess, j, results, processingErrors, caught, outcome,
             notifyLog, mailLog, callLog, forDate, http>>

----------------------------------------------------------------------------
(* JavaScript values *)

\* undefined, where a string is expected: a sequence that is no string
Undefined == <<"undefined">>
\* what a fetch gives: the data, or a throw (getShipmentDetails) / null (getCustomerDetails)
Fetched(data) == [ok |-> TRUE, data |-> data]
FetchFailed == [ok |-> FALSE]
\* a pickup timestamp that is no "date time" string
NoPickup == [date |-> "", time |-> <<>>]
\* a pure function's result before and after the call
Pending == [done |-> FALSE]
Returned(value) == [done |-> TRUE, value |-> value]

Min(a, b) == IF a <= b THEN a ELSE b

\* Faulty variant of SliceFirst: the last n elements.
SliceLast(arr, n) == SubSeq(arr, Len(arr) - Min(n, Len(arr)) + 1, Len(arr))

\* Array.prototype.slice(0, n) for n >= 0
SliceFirst(arr, n) == SubSeq(arr, 1, Min(n, Len(arr)))

\* Array.prototype.includes
ArrayIncludes(arr, x) == \E k \in 1..Len(arr) : arr[k] = x

LowerLetters == <<"a","b","c","d","e","f","g","h","i","j","k","l","m",
                  "n","o","p","q","r","s","t","u","v","w","x","y","z">>
UpperLetters == <<"A","B","C","D","E","F","G","H","I","J","K","L","M",
                  "N","O","P","Q","R","S","T","U","V","W","X","Y","Z">>

ToUpperChar(c) ==
    IF \E k \in 1..Len(LowerLetters) : LowerLetters[k] = c
    THEN UpperLetters[CHOOSE k \in 1..Len(LowerLetters) : LowerLetters[k] = c]
    ELSE c

ToLowerChar(c) ==
    IF \E k \in 1..Len(UpperLetters) : UpperLetters[k] = c
    THEN LowerLetters[CHOOSE k \in 1..Len(UpperLetters) : UpperLetters[k] = c]
    ELSE c

\* String.prototype.toUpperCase / toLowerCase
ToUpperCase(s) == [k \in 1..Len(s) |-> ToUpperChar(s[k])]
ToLowerCase(s) == [k \in 1..Len(s) |-> ToLowerChar(s[k])]

\* String.prototype.includes: needle occurs as a contiguous substring
StringIncludes(hay, needle) ==
    \E start \in 0..(Len(hay) - Len(needle)) :
        SubSeq(hay, start + 1, start + Len(needle)) = needle

----------------------------------------------------------------------------
(* Validation rules *)

isDestinationAllowed(destinationCountry, allowedCountries) ==
    ArrayIncludes(allowedCountries, ToUpperCase(destinationCountry))

\* Faulty variant of isSupplierAllowed: the names are compared without case folding.
isSupplierAllowed_CaseSensitive(companyName, allowedSuppliers) ==
    IF companyName = Undefined \/ companyName = <<>>
    THEN FALSE
    ELSE \E k \in 1..Len(allowedSuppliers) :
            \/ StringIncludes(allowedSuppliers[k], companyName)
            \/ StringIncludes(companyName, allowedSuppliers[k])

isSupplierAllowed(companyName, allowedSuppliers) ==
    IF companyName = Undefined \/ companyName = <<>>
    THEN FALSE
    ELSE \E k \in 1..Len(allowedSuppliers) :
            \/ StringIncludes(ToLowerCase(allowedSuppliers[k]), ToLowerCase(companyName))
            \/ StringIncludes(ToLowerCase(companyName), ToLowerCase(allowedSuppliers[k]))

\* timeToMinutes: hours and minutes of "HH:MM:SS"; the seconds are dropped.
timeToMinutes(timeStr) == timeStr[1] * 60 + timeStr[2]

\* Faulty variant of the window test: the cross-midnight branch is missing.
WindowNoWrap(pickupMinutes, cutoffMinutes, cipMinutes) ==
    pickupMinutes >= cutoffMinutes /\ pickupMinutes <= cipMinutes

\* coverzyCron.js: the comparison of isPickupTimeValid, in minutes.
PickupInWindow(pickupMinutes, cutoffMinutes, cipMinutes) ==
    IF cutoffMinutes <= cipMinutes
    THEN pickupMinutes >= cutoffMinutes /\ pickupMinutes <= cipMinutes
    ELSE pickupMinutes >= cutoffMinutes \/ pickupMinutes <= cipMinutes

\* coverzyCron.js: cutoff/CIP-window generation.  A pickup that is not a
\* "date time" string yields false (the catch, or a NaN comparison).
isPickupTimeValid(pickupTime, cutoffTime, cipTime) ==
    IF pickupTime = NoPickup
    THEN FALSE
    ELSE PickupInWindow(timeToMinutes(pickupTime.time),
                        timeToMinutes(cutoffTime), timeToMinutes(cipTime))

\* Faulty variant of isPickupTimeValidB: a pickup in the cutoff's own minute passes.
isPickupTimeValidB_Inclusive(pickupTime, cutoffTime, cipTime) ==
    IF pickupTime = NoPickup
    THEN FALSE
    ELSE timeToMinutes(pickupTime.time) <= timeToMinutes(cutoffTime)

\* Cutoff-only generation: strictly before the cutoff.
isPickupTimeValidB(pickupTime, cutoffTime, cipTime) ==
    IF pickupTime = NoPickup
    THEN FALSE
    ELSE timeToMinutes(pickupTime.time) < timeToMinutes(cutoffTime)

\* Faulty variant of isShipmentValueValid: a value exactly at the threshold fails.
isShipmentValueValid_Strict(packageValue, minShipmentValueUsd, usdToInrRate) ==
    IF usdToInrRate <= 0
    THEN 0 > minShipmentValueUsd
    ELSE packageValue > minShipmentValueUsd * usdToInrRate

\* convertInrToUsd(v, rate) >= minValue, over the rationals: for rate > 0 the
\* quotient v / rate is at least m exactly when v >= m * rate; an invalid
\* rate makes the conversion return 0.
isShipmentValueValid(packageValue, minShipmentValueUsd, usdToInrRate) ==
    IF usdToInrRate <= 0
    THEN 0 >= minShipmentValueUsd
    ELSE packageValue >= minShipmentValueUsd * usdToInrRate

USA == <<"U","S","A">>
US == <<"U","S">>
UK == <<"U","K">>
GB == <<"G","B">>
FR == <<"F","R">>
UnitedStates == <<"U","N","I","T","E","D"," ","S","T","A","T","E","S">>
UnitedKingdom == <<"U","N","I","T","E","D"," ","K","I","N","G","D","O","M">>
ShipPlus == <<"s","h","i","p","+">>
ShipD == <<"s","h","i","p","d">>

\* getCarrierInfo(...) !== null
isServiceDestinationValid(destinationCountry, serviceType) ==
    LET destination == ToUpperCase(destinationCountry)
        service == ToLowerCase(serviceType)
    IN  /\ destination \in {USA, US, UnitedStates, UK, GB, UnitedKingdom}
        /\ service \in {ShipPlus, ShipD}

DestinationNotAllowed == "destination-not-allowed"
ServiceUnsupported == "service-unsupported"
PickupOutOfWindow == "pickup-time-out-of-window"
ValueBelowThreshold == "value-below-threshold"
SupplierNotAllowed == "supplier-not-allowed"
LookupFailed == "lookup-failed"

\* customerDetails ? customerDetails[0] : {}
CustomerInfoOf(customerDetails) ==
    IF customerDetails.ok THEN customerDetails.data ELSE [company_name |-> Undefined]

Invalid(awb, reason) ==
    [valid |-> FALSE, awb |-> awb, error |-> reason]

Valid(awb, shipmentDetails, customerInfo) ==
    [valid |-> TRUE, awb |-> awb, shipmentDetails |-> shipmentDetails,
     customerInfo |-> customerInfo]

\* Faulty variant of validateShipmentOnly (cutoff/CIP generation): the supplier is
\* checked before the destination.
validateShipmentOnlyA_SupplierFirst(awb, detailRes, customerDetails, s) ==
    LET shipmentDetails == detailRes.data IN
    IF ~detailRes.ok THEN Invalid(awb, LookupFailed)
    ELSE IF ~isSupplierAllowed(CustomerInfoOf(customerDetails).company_name, s.suppliers)
    THEN Invalid(awb, SupplierNotAllowed)
    ELSE IF ~isDestinationAllowed(shipmentDetails.Destination_Country, s.countries)
    THEN Invalid(awb, DestinationNotAllowed)
    ELSE IF ~isPickupTimeValid(shipmentDetails.Create_Pick_Up_Date, s.cutoffTime, s.cipTime)
    THEN Invalid(awb, PickupOutOfWindow)
    ELSE Valid(awb, shipmentDetails, CustomerInfoOf(customerDetails))

\* coverzyCron.js validateShipmentOnly.  detailRes is what getShipmentDetails
\* gave (FetchFailed when it threw), customerDetails what getCustomerDetails
\* gave (FetchFailed for its null).
validateShipmentOnlyA(awb, detailRes, customerDetails, s) ==
    LET shipmentDetails == detailRes.data IN
    IF ~detailRes.ok THEN Invalid(awb, LookupFailed)
    ELSE IF ~isDestinationAllowed(shipmentDetails.Destination_Country, s.countries)
    THEN Invalid(awb, DestinationNotAllowed)
    ELSE IF ~isPickupTimeValid(shipmentDetails.Create_Pick_Up_Date, s.cutoffTime, s.cipTime)
    THEN Invalid(awb, PickupOutOfWindow)
    ELSE IF ~isSupplierAllowed(CustomerInfoOf(customerDetails).company_name, s.suppliers)
    THEN Invalid(awb, SupplierNotAllowed)
    ELSE Valid(awb, shipmentDetails, CustomerInfoOf(customerDetails))

\* validateShipmentOnly of the cutoff-only generation, with the service and
\* value rules.
validateShipmentOnlyB(awb, detailRes, customerDetails, s) ==
    LET shipmentDetails == detailRes.data IN
    IF ~detailRes.ok THEN Invalid(awb, LookupFailed)
    ELSE IF ~isDestinationAllowed(shipmentDetails.Destination_Country, s.countries)
    THEN Invalid(awb, DestinationNotAllowed)
    ELSE IF ~isServiceDestinationValid(shipmentDetails.Destination_Country,
                                       shipmentDetails.Service_Type)
    THEN Invalid(awb, ServiceUnsupported)
    ELSE IF ~isPickupTimeValidB(shipmentDetails.Create_Pick_Up_Date, s.cutoffTime, s.cipTime)
    THEN Invalid(awb, PickupOutOfWindow)
    ELSE IF ~isShipmentValueValid(shipmentDetails.Package_Value, s.minShipmentValueUsd,
                                  s.usdToInrRate)
    THEN Invalid(awb, ValueBelowThreshold)
    ELSE IF ~isSupplierAllowed(CustomerInfoOf(customerDetails).company_name, s.suppliers)
    THEN Invalid(awb, SupplierNotAllowed)
    ELSE Valid(awb, shipmentDetails, CustomerInfoOf(customerDetails))

validateShipmentOnly(v, awb, detailRes, customerDetails, s) ==
    IF v = "A"
    THEN validateShipmentOnlyA(awb, detailRes, customerDetails, s)
    ELSE validateShipmentOnlyB(awb, detailRes, customerDetails, s)

----------------------------------------------------------------------------
(* The validation functions applied to bounded inputs *)

Acme == <<"A","C","M","E">>
AcmeCorp == <<"A","C","M","E"," ","C","o","r","p">>
AcmeLower == <<"A","c","m","e">>
Other == <<"O","t","h","e","r">>
Air == <<"A","i","r">>
ShipPlusMixed == <<"S","h","i","p","+">>

Pickup(h, m, s) == [date |-> "2024-05-01", time |-> <<h, m, s>>]

\* The settings object getCoverzySettings builds from a row.
SettingsOf(row) ==
    [suppliers |-> row.supplier_names,
     countries |-> row.destination_countries,
     maxShipments |-> row.max_shipments,
     cutoffTime |-> row.cutoff_time,
     cipTime |-> row.cip_time,
     minShipmentValueUsd |-> row.min_shipment_value_usd,
     usdToInrRate |-> row.usd_to_inr_rate]

Row(countries, cutoff, cip, maxShipments, enabled) ==
    [supplier_names |-> <<Acme>>,
     destination_countries |-> countries,
     max_shipments |-> maxShipments,
     cutoff_time |-> cutoff,
     cip_time |-> cip,
     min_shipment_value_usd |-> 20,
     usd_to_inr_rate |-> 83,
     admin_emails |-> <<"admin@example.com">>,
     email_enabled |-> enabled]

\* Pairs <<min_shipment_value_usd, usd_to_inr_rate>> of a settings row.
ValueThresholds == { <<20, 83>>, <<12, 80>> }

ValidateSettings ==
    { [SettingsOf(Row(c, <<19,0,0>>, <<23,30,0>>, 2, TRUE))
         EXCEPT !.minShipmentValueUsd = t[1], !.usdToInrRate = t[2]] :
        c \in { <<US, GB>>, << <<"u","s">> >> }, t \in ValueThresholds }

ValidateDetails ==
    { [Destination_Country |-> d, Service_Type |-> sv, Create_Pick_Up_Date |-> p,
       Package_Value |-> v, Customer_ID |-> "cust"] :
        d \in {US, <<"u","s">>, GB, FR},
        sv \in {ShipPlusMixed, Air},
        p \in {Pickup(20,0,0), Pickup(10,0,0), NoPickup},
        v \in {959, 960, 1000, 1659, 1660, 5000} }

ValidateCustomers ==
    {FetchFailed} \cup { Fetched([company_name |-> n]) : n \in {AcmeCorp, Other, Undefined} }

ValidateCalled ==
    /\ call \in [fn : {"validateShipmentOnly"},
                 variant : {"A", "B"},
                 awb : {"AWB1"},
                 detail : {FetchFailed} \cup { Fetched(d) : d \in ValidateDetails },
                 customer : ValidateCustomers,
                 settings : ValidateSettings]
    /\ ret = Pending

CallValidateShipmentOnly ==
    /\ call.fn = "validateShipmentOnly"
    /\ ret = Pending
    /\ ret' = Returned(validateShipmentOnly(call.variant, call.awb, call.detail,
                                            call.customer, call.settings))
    /\ UNCHANGED call

PickupWindows ==
    { <<c, p>> : c \in { <<23,0,0>>, <<19,0,0>>, <<10,15,0>> },
                 p \in { <<2,0,0>>, <<23,30,0>>, <<10,15,0>> } }

PickupCalled ==
    /\ call \in { [fn |-> "isPickupTimeValid", pickup |-> Pickup(h, m, s),
                   cutoff |-> w[1], cip |-> w[2]] :
                     h \in 0..23, m \in 0..59, s \in {0, 59}, w \in PickupWindows }
    /\ ret = Pending

CallIsPickupTimeValid ==
    /\ call.fn = "isPickupTimeValid"
    /\ ret = Pending
    /\ ret' = Returned(isPickupTimeValid(call.pickup, call.cutoff, call.cip))
    /\ UNCHANGED call

\* Cutoffs handed to the cutoff-only isPickupTimeValid.
PickupCutoffsB == { <<23,0,0>>, <<23,0,30>>, <<19,0,0>>, <<10,15,0>>, <<0,0,0>> }

PickupCalledB ==
    /\ call \in { [fn |-> "isPickupTimeValidB", pickup |-> Pickup(h, m, s),
                   cutoff |-> c, cip |-> <<23,30,0>>] :
                     h \in 0..23, m \in 0..59, s \in {0, 1, 59}, c \in PickupCutoffsB }
    /\ ret = Pending

CallIsPickupTimeValidB ==
    /\ call.fn = "isPickupTimeValidB"
    /\ ret = Pending
    /\ ret' = Returned(isPickupTimeValidB(call.pickup, call.cutoff, call.cip))
    /\ UNCHANGED call

\* Every upper/lower casing of a two-letter code.
Casings(code) ==
    { <<a, b>> : a \in {ToUpperChar(code[1]), ToLowerChar(code[1])},
                 b \in {ToUpperChar(code[2]), ToLowerChar(code[2])} }

\* Destinations as the platform may spell them, and allow-lists as the
\* settings row may spell them (the row is split and trimmed, nothing else).
DestinationSpellings == Casings(US) \cup Casings(GB) \cup Casings(FR)

AllowListEntries == Casings(US) \cup Casings(GB)

AllowLists ==
    {<<>>} \cup { <<e>> : e \in AllowListEntries }
           \cup { <<e, f>> : e \in AllowListEntries, f \in AllowListEntries }

DestinationCalled ==
    /\ call \in [fn : {"isDestinationAllowed"},
                 destination : DestinationSpellings,
                 allowList : AllowLists]
    /\ ret = Pending

CallIsDestinationAllowed ==
    /\ call.fn = "isDestinationAllowed"
    /\ ret = Pending
    /\ ret' = Returned(isDestinationAllowed(call.destination, call.allowList))
    /\ UNCHANGED call

----------------------------------------------------------------------------
(* Collaborators: the logistics platform, the underwriting API, the stores *)

MaxListing == 2
MaxCap == 2

Catalogue == {"AWB1", "AWB2", "AWB3", "AWB4"}

\* What LEX_SHIPMENT_API holds for each AWB.
ShipmentAPI(awb) ==
    CASE awb = "AWB1" ->
           [Name |-> awb, Destination_Country |-> US, Service_Type |-> ShipPlusMixed,
            Create_Pick_Up_Date |-> Pickup(20,0,0), Package_Value |-> 5000,
            Customer_ID |-> "cust-acme-corp"]
      [] awb = "AWB2" ->
           [Name |-> awb, Destination_Country |-> FR, Service_Type |-> ShipPlusMixed,
            Create_Pick_Up_Date |-> Pickup(20,0,0), Package_Value |-> 5000,
            Customer_ID |-> "cust-other"]
      [] awb = "AWB3" ->
           [Name |-> awb, Destination_Country |-> GB, Service_Type |-> ShipD,
            Create_Pick_Up_Date |-> Pickup(21,0,0), Package_Value |-> 5000,
            Customer_ID |-> "cust-acme"]
      [] OTHER ->
           [Name |-> awb, Destination_Country |-> US, Service_Type |-> ShipD,
            Create_Pick_Up_Date |-> Pickup(20,30,0), Package_Value |-> 9000,
            Customer_ID |-> "cust-acme-corp"]

\* What LEX_CUSTOMER_DETAIL_API holds for each customer id.
CustomerAPI(customerId) ==
    CASE customerId = "cust-acme-corp" -> [company_name |-> AcmeCorp]
      [] customerId = "cust-acme" -> [company_name |-> AcmeLower]
      [] OTHER -> [company_name |-> Other]

\* The listings the platform may return: distinct AWBs in any order.
Listings ==
    { l \in UNION { [1..n -> Catalogue] : n \in 0..MaxListing } :
        \A p, q \in 1..Len(l) : p # q => l[p] # l[q] }

\* What the underwriting API may answer.
Responses ==
    { [status |-> "success", policyId |-> "POL-1", amount |-> 100],
      [status |-> "success", policyId |-> "", amount |-> 100],
      [status |-> "failed", policyId |-> "POL-1", amount |-> 100],
      [status |-> "failed", policyId |-> "", amount |-> 0] }

Thrown(message) == [ok |-> FALSE, error |-> [message |-> message]]

SubmitOutcomes ==
    {Thrown("Request failed with status code 500")} \cup { Fetched(r) : r \in Responses }

\* Faulty variant of logErrorToDatabase: nothing is inserted.
logErrorToDatabase_Dropped(log, errorType, errorMessage, insertOk) == log

\* logErrorToDatabase: the insert, or nothing when the insert fails (the
\* failure is swallowed and null returned).
logErrorToDatabase(log, errorType, errorMessage, insertOk) ==
    IF insertOk
    THEN Append(log, [job_name |-> "coverzy_daily_shipments", error_type |-> errorType,
                      error_message |-> errorMessage])
    ELSE log

\* Faulty variant of saveShipmentToDatabase: a plain INSERT.
saveShipmentToDatabase_Insert(rows, awb, supplierName, destinationCountry, coverzyResponse) ==
    Append(rows, [shipment_id |-> awb, supplier_name |-> supplierName,
                  destination_country |-> destinationCountry,
                  policy_id |-> coverzyResponse.policyId,
                  amount |-> coverzyResponse.amount,
                  currency |-> "INR", view_pdf |-> ""])

\* Faulty variant of saveShipmentToDatabase: on a duplicate key only the amount is updated.
saveShipmentToDatabase_AmountOnly(rows, awb, supplierName, destinationCountry, coverzyResponse) ==
    LET row == [shipment_id |-> awb, supplier_name |-> supplierName,
                destination_country |-> destinationCountry,
                policy_id |-> coverzyResponse.policyId,
                amount |-> coverzyResponse.amount,
                currency |-> "INR", view_pdf |-> ""]
    IN  IF \E k \in 1..Len(rows) : rows[k].shipment_id = awb
        THEN [k \in 1..Len(rows) |->
                IF rows[k].shipment_id = awb
                THEN [rows[k] EXCEPT !.amount = coverzyResponse.amount]
                ELSE rows[k]]
        ELSE Append(rows, row)

\* Faulty variant of saveShipmentToDatabase: on a duplicate key view_pdf is left as it is.
saveShipmentToDatabase_KeepPdf(rows, awb, supplierName, destinationCountry, coverzyResponse) ==
    LET row == [shipment_id |-> awb, supplier_name |-> supplierName,
                destination_country |-> destinationCountry,
                policy_id |-> coverzyResponse.policyId,
                amount |-> coverzyResponse.amount,
                currency |-> "INR", view_pdf |-> ""]
    IN  IF \E k \in 1..Len(rows) : rows[k].shipment_id = awb
        THEN [k \in 1..Len(rows) |->
                IF rows[k].shipment_id = awb
                THEN [row EXCEPT !.view_pdf = rows[k].view_pdf]
                ELSE rows[k]]
        ELSE Append(rows, row)

\* saveShipmentToDatabase: INSERT ... ON DUPLICATE KEY UPDATE on the unique
\* key shipment_id; view_pdf is written as NULL ("" here).
saveShipmentToDatabase(rows, awb, supplierName, destinationCountry, coverzyResponse) ==
    LET row == [shipment_id |-> awb, supplier_name |-> supplierName,
                destination_country |-> destinationCountry,
                policy_id |-> coverzyResponse.policyId,
                amount |-> coverzyResponse.amount,
                currency |-> "INR", view_pdf |-> ""]
    IN  IF \E k \in 1..Len(rows) : rows[k].shipment_id = awb
        THEN [k \in 1..Len(rows) |-> IF rows[k].shipment_id = awb THEN row ELSE rows[k]]
        ELSE Append(rows, row)

----------------------------------------------------------------------------
(* Notifier *)

\* getEmailSettings: the latest row's recipients and flag, or null
\* (found = FALSE) when the read fails or the table is empty.
getEmailSettings(table, readOk) ==
    IF readOk /\ Len(table) > 0
    THEN [found |-> TRUE,
          adminEmails |-> table[Len(table)].admin_emails,
          emailEnabled |-> table[Len(table)].email_enabled]
    ELSE [found |-> FALSE, adminEmails |-> <<>>, emailEnabled |-> FALSE]

\* Faulty variant of the two send functions: the email_enabled flag is not consulted.
sendIgnoringFlag(table, readOk, sendOk) ==
    LET emailSettings == getEmailSettings(table, readOk) IN
    IF ~emailSettings.found
    THEN [success |-> FALSE, skipped |-> FALSE, transport |-> FALSE]
    ELSE IF Len(emailSettings.adminEmails) = 0
    THEN [success |-> FALSE, skipped |-> FALSE, transport |-> FALSE]
    ELSE [success |-> sendOk, skipped |-> FALSE, transport |-> TRUE]

\* sendCronErrorEmail: what it returns, and whether it called
\* transporter.sendMail (sendOk: whether sendMail resolved).
sendCronErrorEmail(table, readOk, sendOk) ==
    LET emailSettings == getEmailSettings(table, readOk) IN
    IF ~emailSettings.found
    THEN [success |-> FALSE, skipped |-> FALSE, transport |-> FALSE]
    ELSE IF ~emailSettings.emailEnabled
    THEN [success |-> FALSE, skipped |-> TRUE, transport |-> FALSE]
    ELSE IF Len(emailSettings.adminEmails) = 0
    THEN [success |-> FALSE, skipped |-> FALSE, transport |-> FALSE]
    ELSE [success |-> sendOk, skipped |-> FALSE, transport |-> TRUE]

\* sendDailySummaryEmail, likewise.
sendDailySummaryEmail(table, readOk, sendOk) ==
    LET emailSettings == getEmailSettings(table, readOk) IN
    IF ~emailSettings.found
    THEN [success |-> FALSE, skipped |-> FALSE, transport |-> FALSE]
    ELSE IF ~emailSettings.emailEnabled
    THEN [success |-> FALSE, skipped |-> TRUE, transport |-> FALSE]
    ELSE IF Len(emailSettings.adminEmails) = 0
    THEN [success |-> FALSE, skipped |-> FALSE, transport |-> FALSE]
    ELSE [success |-> sendOk, skipped |-> FALSE, transport |-> TRUE]

\* The two logs after one call of a send function that returned r.
Notified(fn, category, r) ==
    Append(notifyLog, [fn |-> fn, category |-> category, returned |-> r])

Mailed(fn, r) ==
    IF r.transport THEN Append(mailLog, [fn |-> fn, delivered |-> r.success]) ELSE mailLog

----------------------------------------------------------------------------
(* The scheduled run: processPreviousDayShipments *)

SuccessRateThreshold == 80

Called(op, arg, ok) == [op |-> op, arg |-> arg, ok |-> ok]

NoSettings == SettingsOf(Row(<<>>, <<0,0,0>>, <<0,0,0>>, 0, FALSE))
NoError == [message |-> ""]
NoOutcome == [kind |-> "none"]
ReturnedToCaller(value) == [kind |-> "returned", value |-> value]
RaisedToCaller(error) == [kind |-> "raised", error |-> error]

ListingFailed == "Request failed: daily shipments data"
NoSettingsFound == "No coverzy settings found in database"
DatabaseDown == "connect ECONNREFUSED"
ResponseNotSuccessful == "Coverzy API response not successful"

\* getCoverzySettings: the settings object of the latest row, or the error it
\* throws (no row, or the read failed).
getCoverzySettings(table, readOk) ==
    IF ~readOk THEN Thrown(DatabaseDown)
    ELSE IF Len(table) > 0 THEN Fetched(SettingsOf(table[Len(table)]))
    ELSE Thrown(NoSettingsFound)

\* invalidShipments.map(inv => ({ awb: inv.awb, error: inv.error }))
ErrorsOf(invalid) ==
    [k \in 1..Len(invalid) |-> [awb |-> invalid[k].awb, error |-> invalid[k].error]]

\* Whether validateShipmentOnly gets as far as its getCustomerDetails call:
\* with no customer record the only rule left to fail is the supplier rule.
ReachesCustomerFetch(v, awb, detailRes, s) ==
    validateShipmentOnly(v, awb, detailRes, FetchFailed, s).error = SupplierNotAllowed

\* Faulty variant of processValidatedShipment: a failed upsert is swallowed
\* and the shipment returned as saved.
processValidatedShipment_SwallowUpsert(validationResult, sub, dbOk) ==
    IF ~sub.ok
    THEN [threw |-> TRUE, saved |-> FALSE, error |-> sub.error]
    ELSE IF sub.data.status = "success" /\ sub.data.policyId # ""
    THEN [threw |-> FALSE, saved |-> dbOk,
          result |-> [coverzyResponse |-> sub.data, savedToDatabase |-> TRUE,
                      error |-> ""]]
    ELSE [threw |-> FALSE, saved |-> FALSE,
          result |-> [coverzyResponse |-> sub.data, savedToDatabase |-> FALSE,
                      error |-> ResponseNotSuccessful]]

\* processValidatedShipment: what it returns or throws, given the answer of
\* the underwriting API and whether the insert of the upsert succeeds.
processValidatedShipment(validationResult, sub, dbOk) ==
    IF ~sub.ok
    THEN [threw |-> TRUE, saved |-> FALSE, error |-> sub.error]
    ELSE IF sub.data.status = "success" /\ sub.data.policyId # ""
    THEN IF dbOk
         THEN [threw |-> FALSE, saved |-> TRUE,
               result |-> [coverzyResponse |-> sub.data, savedToDatabase |-> TRUE,
                           error |-> ""]]
         ELSE [threw |-> TRUE, saved |-> FALSE, error |-> [message |-> DatabaseDown]]
    ELSE [threw |-> FALSE, saved |-> FALSE,
          result |-> [coverzyResponse |-> sub.data, savedToDatabase |-> FALSE,
                      error |-> ResponseNotSuccessful]]

\* (results.length / shipmentsToProcess.length) * 100 >= 80, and 0 for an
\* empty capped list
SuccessRateReached(nResults, nToProcess) ==
    /\ nToProcess > 0
    /\ nResults * 100 >= SuccessRateThreshold * nToProcess

SettingsTables ==
    {<<>>} \cup
    { <<Row(<<US, GB>>, c, <<23,30,0>>, n, e)>> :
        c \in { <<19,0,0>>, <<22,0,0>> }, n \in 0..MaxCap, e \in BOOLEAN }

\* processShipmentsForDate before it is called.
ForDateIdle ==
    [pc |-> "start", settings |-> NoSettings, awbNumbers |-> <<>>,
     limitedAwbNumbers |-> <<>>, k |-> 1, results |-> <<>>, errors |-> <<>>,
     outcome |-> NoOutcome, callLog |-> <<>>]

\* No request made yet.
HttpIdle ==
    [at |-> "idle", op |-> "", key |-> <<"start", 1, 1>>, answers |-> <<>>,
     outstanding |-> 0, issued |-> 0]

PureIdle ==
    /\ call = [fn |-> "none"]
    /\ ret = Pending

RunIdle ==
    /\ pc = "start"
    /\ settings = NoSettings
    /\ awbNumbers = <<>>
    /\ i = 1
    /\ validShipments = <<>>
    /\ invalidShipments = <<>>
    /\ shipmentsToProcess = <<>>
    /\ j = 1
    /\ results = <<>>
    /\ processingErrors = <<>>
    /\ caught = NoError
    /\ outcome = NoOutcome
    /\ notifyLog = <<>>
    /\ mailLog = <<>>
    /\ callLog = <<>>
    /\ coverzy_shipments = <<>>
    /\ cron_error_logs = <<>>
    /\ forDate = ForDateIdle
    /\ http = HttpIdle

Init ==
    /\ PureIdle
    /\ RunIdle
    /\ variant \in {"A", "B"}
    /\ coverzy_settings \in SettingsTables

\* const settings = await getCoverzySettings()
LoadSettings ==
    /\ pc = "start"
    /\ \E readOk, insertOk \in BOOLEAN :
        LET got == getCoverzySettings(coverzy_settings, readOk) IN
        IF got.ok
        THEN /\ insertOk
             /\ settings' = got.data
             /\ pc' = "listing"
             /\ callLog' = Append(callLog, Called("settings", "", TRUE))
             /\ UNCHANGED <<cron_error_logs, caught>>
        ELSE /\ cron_error_logs' = logErrorToDatabase(cron_error_logs, "database_error",
                                                      got.error.message, insertOk)
             /\ caught' = got.error
             /\ pc' = "catch"
             /\ callLog' = callLog \o <<Called("settings", "", FALSE),
                                        Called("logError", "database_error", insertOk)>>
             /\ UNCHANGED settings
    /\ UNCHANGED <<call, ret, http, forDate, variant, coverzy_settings, coverzy_shipments, awbNumbers, i,
                   validShipments, invalidShipments, shipmentsToProcess, j, results,
                   processingErrors, outcome, notifyLog, mailLog>>

\* awbNumbers = await getDailyShipmentsData(...), its catch, and the
\* empty-listing return, with the platform answering one of listings
FetchListingFrom(listings) ==
    /\ pc = "listing"
    /\ \E res \in {Thrown(ListingFailed)} \cup { Fetched(l) : l \in listings },
          insertOk, readOk, sendOk \in BOOLEAN :
        IF ~res.ok
        THEN LET r == sendCronErrorEmail(coverzy_settings, readOk, sendOk) IN
             /\ cron_error_logs' = logErrorToDatabase(cron_error_logs, "api_error",
                                                      res.error.message, insertOk)
             /\ notifyLog' = Notified("sendCronErrorEmail", "api_error", r)
             /\ mailLog' = Mailed("sendCronErrorEmail", r)
             /\ caught' = res.error
             /\ pc' = "catch"
             /\ callLog' = callLog \o <<Called("listing", "", FALSE),
                                        Called("logError", "api_error", insertOk)>>
             /\ UNCHANGED <<awbNumbers, outcome>>
        ELSE /\ insertOk /\ readOk /\ sendOk
             /\ callLog' = Append(callLog, Called("listing", "", TRUE))
             /\ UNCHANGED <<cron_error_logs, notifyLog, mailLog, caught>>
             /\ IF Len(res.data) = 0
                THEN /\ outcome' = ReturnedToCaller([results |-> <<>>, errors |-> <<>>,
                                                     total |-> 0])
                     /\ pc' = "done"
                     /\ UNCHANGED awbNumbers
                ELSE /\ awbNumbers' = res.data
                     /\ pc' = "validating"
                     /\ UNCHANGED outcome
    /\ UNCHANGED <<call, ret, http, forDate, variant, coverzy_settings, coverzy_shipments, settings, i,
                   validShipments, invalidShipments, shipmentsToProcess, j, results,
                   processingErrors>>

FetchListing == FetchListingFrom(Listings)

\* Faulty variant of ValidateNext: a failed detail fetch is treated as a systemic
\* failure, logged as api_error and handed to the outer catch.
ValidateNext_Escalate ==
    /\ pc = "validating"
    /\ i <= Len(awbNumbers)
    /\ \E detailOk, custOk \in BOOLEAN :
        LET awb == awbNumbers[i]
            detailRes == IF detailOk THEN Fetched(ShipmentAPI(awb)) ELSE FetchFailed
            reached == detailOk /\ ReachesCustomerFetch(variant, awb, detailRes, settings)
            custRes == IF custOk
                       THEN Fetched(CustomerAPI(detailRes.data.Customer_ID))
                       ELSE FetchFailed
            validationResult == validateShipmentOnly(variant, awb, detailRes, custRes,
                                                     settings)
        IN  /\ ~reached => custOk
            /\ IF validationResult.valid
               THEN /\ validShipments' = Append(validShipments, validationResult)
                    /\ UNCHANGED invalidShipments
               ELSE /\ invalidShipments' = Append(invalidShipments, validationResult)
                    /\ UNCHANGED validShipments
            /\ callLog' = callLog
                            \o <<Called("validate", awb, TRUE), Called("detail", awb, detailOk)>>
                            \o (IF reached THEN <<Called("customer", awb, custOk)>> ELSE <<>>)
            /\ IF detailOk
               THEN UNCHANGED <<cron_error_logs, caught, pc>>
               ELSE /\ cron_error_logs' = logErrorToDatabase(cron_error_logs, "api_error",
                                                             LookupFailed, TRUE)
                    /\ caught' = [message |-> LookupFailed]
                    /\ pc' = "catch"
    /\ i' = i + 1
    /\ UNCHANGED <<call, ret, http, forDate, variant, coverzy_settings, coverzy_shipments,
                   settings, awbNumbers, shipmentsToProcess, j, results,
                   processingErrors, outcome, notifyLog, mailLog>>

\* Faulty variant of ValidateNext: the settings are read again from the latest row
\* for every shipment.
ValidateNext_Reload ==
    /\ pc = "validating"
    /\ i <= Len(awbNumbers)
    /\ \E detailOk, custOk \in BOOLEAN :
        LET awb == awbNumbers[i]
            detailRes == IF detailOk THEN Fetched(ShipmentAPI(awb)) ELSE FetchFailed
            reached == detailOk /\ ReachesCustomerFetch(variant, awb, detailRes, settings)
            custRes == IF custOk
                       THEN Fetched(CustomerAPI(detailRes.data.Customer_ID))
                       ELSE FetchFailed
            validationResult == validateShipmentOnly(variant, awb, detailRes, custRes,
                                                     settings')
        IN  /\ settings' = SettingsOf(coverzy_settings[Len(coverzy_settings)])
            /\ ~reached => custOk
            /\ IF validationResult.valid
               THEN /\ validShipments' = Append(validShipments, validationResult)
                    /\ UNCHANGED invalidShipments
               ELSE /\ invalidShipments' = Append(invalidShipments, validationResult)
                    /\ UNCHANGED validShipments
            /\ callLog' = callLog
                            \o <<Called("validate", awb, TRUE), Called("detail", awb, detailOk)>>
                            \o (IF reached THEN <<Called("customer", awb, custOk)>> ELSE <<>>)
    /\ i' = i + 1
    /\ UNCHANGED <<call, ret, http, forDate, variant, coverzy_settings, coverzy_shipments, cron_error_logs,
                   pc, awbNumbers, shipmentsToProcess, j, results,
                   processingErrors, caught, outcome, notifyLog, mailLog>>

\* One iteration of the validation loop.
ValidateNext ==
    /\ pc = "validating"
    /\ i <= Len(awbNumbers)
    /\ \E detailOk, custOk \in BOOLEAN :
        LET awb == awbNumbers[i]
            detailRes == IF detailOk THEN Fetched(ShipmentAPI(awb)) ELSE FetchFailed
            reached == detailOk /\ ReachesCustomerFetch(variant, awb, detailRes, settings)
            custRes == IF custOk
                       THEN Fetched(CustomerAPI(detailRes.data.Customer_ID))
                       ELSE FetchFailed
            validationResult == validateShipmentOnly(variant, awb, detailRes, custRes,
                                                     settings)
        IN  /\ ~reached => custOk
            /\ IF validationResult.valid
               THEN /\ validShipments' = Append(validShipments, validationResult)
                    /\ UNCHANGED invalidShipments
               ELSE /\ invalidShipments' = Append(invalidShipments, validationResult)
                    /\ UNCHANGED validShipments
            /\ callLog' = callLog
                            \o <<Called("validate", awb, TRUE), Called("detail", awb, detailOk)>>
                            \o (IF reached THEN <<Called("customer", awb, custOk)>> ELSE <<>>)
    /\ i' = i + 1
    /\ UNCHANGED <<call, ret, http, forDate, variant, coverzy_settings, coverzy_shipments, cron_error_logs,
                   pc, settings, awbNumbers, shipmentsToProcess, j, results,
                   processingErrors, caught, outcome, notifyLog, mailLog>>

\* Faulty variant of Cap: the processing phase starts as soon as one shipment is valid.
Cap_Early ==
    /\ pc = "validating"
    /\ Len(validShipments) > 0
    /\ shipmentsToProcess' = SliceFirst(validShipments, settings.maxShipments)
    /\ pc' = "processing"
    /\ UNCHANGED <<call, ret, http, forDate, variant, coverzy_settings, coverzy_shipments, cron_error_logs,
                   settings, awbNumbers, i, validShipments, invalidShipments, j, results,
                   processingErrors, caught, outcome, notifyLog, mailLog, callLog>>

\* Faulty variant of Cap: every valid shipment goes on to the processing phase.
Cap_Unbounded ==
    /\ pc = "validating"
    /\ i > Len(awbNumbers)
    /\ IF Len(validShipments) = 0
       THEN /\ outcome' = ReturnedToCaller([results |-> <<>>,
                                            errors |-> ErrorsOf(invalidShipments),
                                            total |-> Len(awbNumbers),
                                            processed |-> 0,
                                            validFound |-> 0])
            /\ pc' = "done"
            /\ UNCHANGED shipmentsToProcess
       ELSE /\ shipmentsToProcess' = validShipments
            /\ pc' = "processing"
            /\ UNCHANGED outcome
    /\ UNCHANGED <<call, ret, http, forDate, variant, coverzy_settings, coverzy_shipments, cron_error_logs,
                   settings, awbNumbers, i, validShipments, invalidShipments, j, results,
                   processingErrors, caught, notifyLog, mailLog, callLog>>

\* After the validation loop: the no-valid-shipments return, or the cap.
Cap ==
    /\ pc = "validating"
    /\ i > Len(awbNumbers)
    /\ IF Len(validShipments) = 0
       THEN /\ outcome' = ReturnedToCaller([results |-> <<>>,
                                            errors |-> ErrorsOf(invalidShipments),
                                            total |-> Len(awbNumbers),
                                            processed |-> 0,
                                            validFound |-> 0])
            /\ pc' = "done"
            /\ UNCHANGED shipmentsToProcess
       ELSE /\ shipmentsToProcess' = SliceFirst(validShipments, settings.maxShipments)
            /\ pc' = "processing"
            /\ UNCHANGED outcome
    /\ UNCHANGED <<call, ret, http, forDate, variant, coverzy_settings, coverzy_shipments, cron_error_logs,
                   settings, awbNumbers, i, validShipments, invalidShipments, j, results,
                   processingErrors, caught, notifyLog, mailLog, callLog>>

\* Faulty variant of ProcessNext: the loop body has no try/catch, so a throw of
\* processValidatedShipment leaves the loop for the outer catch.
ProcessNext_NoCatch ==
    /\ pc = "processing"
    /\ j <= Len(shipmentsToProcess)
    /\ \E custOk, dbOk \in BOOLEAN, sub \in SubmitOutcomes :
        LET validationResult == shipmentsToProcess[j]
            awb == validationResult.awb
            submitted == sub.ok /\ sub.data.status = "success" /\ sub.data.policyId # ""
            done == processValidatedShipment(validationResult, sub, dbOk)
        IN  /\ ~submitted => dbOk
            /\ callLog' = callLog
                  \o <<Called("process", awb, ~done.threw), Called("customer", awb, custOk),
                       Called("submit", awb, sub.ok)>>
                  \o (IF sub.ok THEN <<Called("response", awb, submitted)>> ELSE <<>>)
                  \o (IF submitted THEN <<Called("upsert", awb, dbOk)>> ELSE <<>>)
            /\ coverzy_shipments' =
                  IF done.saved
                  THEN saveShipmentToDatabase(coverzy_shipments, awb,
                                              validationResult.customerInfo.company_name,
                                              validationResult.shipmentDetails.Destination_Country,
                                              sub.data)
                  ELSE coverzy_shipments
            /\ IF done.threw
               THEN /\ caught' = done.error
                    /\ pc' = "catch"
                    /\ UNCHANGED <<results, j>>
               ELSE /\ results' = Append(results, [awb |-> awb, success |-> TRUE,
                                                   result |-> done.result])
                    /\ j' = j + 1
                    /\ UNCHANGED <<caught, pc>>
    /\ UNCHANGED <<call, ret, http, forDate, variant, coverzy_settings, cron_error_logs, settings,
                   awbNumbers, i, validShipments, invalidShipments, shipmentsToProcess,
                   processingErrors, outcome, notifyLog, mailLog>>

\* Faulty variant of ProcessNext: a failed upsert is thrown to the outer catch.
ProcessNext_UpsertFatal ==
    /\ pc = "processing"
    /\ j <= Len(shipmentsToProcess)
    /\ \E custOk, dbOk \in BOOLEAN, sub \in SubmitOutcomes :
        LET validationResult == shipmentsToProcess[j]
            awb == validationResult.awb
            submitted == sub.ok /\ sub.data.status = "success" /\ sub.data.policyId # ""
            done == processValidatedShipment(validationResult, sub, dbOk)
        IN  /\ ~submitted => dbOk
            /\ callLog' = callLog
                  \o <<Called("process", awb, ~done.threw), Called("customer", awb, custOk),
                       Called("submit", awb, sub.ok)>>
                  \o (IF sub.ok THEN <<Called("response", awb, submitted)>> ELSE <<>>)
                  \o (IF submitted THEN <<Called("upsert", awb, dbOk)>> ELSE <<>>)
            /\ coverzy_shipments' =
                  IF done.saved
                  THEN saveShipmentToDatabase(coverzy_shipments, awb,
                                              validationResult.customerInfo.company_name,
                                              validationResult.shipmentDetails.Destination_Country,
                                              sub.data)
                  ELSE coverzy_shipments
            /\ IF done.threw /\ submitted
               THEN /\ caught' = done.error
                    /\ pc' = "catch"
                    /\ UNCHANGED <<results, processingErrors>>
               ELSE IF done.threw
               THEN /\ processingErrors' = Append(processingErrors,
                                                  [awb |-> awb, error |-> done.error.message])
                    /\ UNCHANGED <<results, caught, pc>>
               ELSE /\ results' = Append(results, [awb |-> awb, success |-> TRUE,
                                                   result |-> done.result])
                    /\ UNCHANGED <<processingErrors, caught, pc>>
    /\ j' = j + 1
    /\ UNCHANGED <<call, ret, http, forDate, variant, coverzy_settings, cron_error_logs, settings,
                   awbNumbers, i, validShipments, invalidShipments, shipmentsToProcess,
                   outcome, notifyLog, mailLog>>

\* One iteration of the processing loop: processValidatedShipment (payload
\* mapping with its customer fetch, submission, upsert on success) inside the
\* loop's try/catch.
ProcessNext ==
    /\ pc = "processing"
    /\ j <= Len(shipmentsToProcess)
    /\ \E custOk, dbOk \in BOOLEAN, sub \in SubmitOutcomes :
        LET validationResult == shipmentsToProcess[j]
            awb == validationResult.awb
            submitted == sub.ok /\ sub.data.status = "success" /\ sub.data.policyId # ""
            done == processValidatedShipment(validationResult, sub, dbOk)
        IN  /\ ~submitted => dbOk
            /\ callLog' = callLog
                  \o <<Called("process", awb, ~done.threw), Called("customer", awb, custOk),
                       Called("submit", awb, sub.ok)>>
                  \o (IF sub.ok THEN <<Called("response", awb, submitted)>> ELSE <<>>)
                  \o (IF submitted THEN <<Called("upsert", awb, dbOk)>> ELSE <<>>)
            /\ coverzy_shipments' =
                  IF done.saved
                  THEN saveShipmentToDatabase(coverzy_shipments, awb,
                                              validationResult.customerInfo.company_name,
                                              validationResult.shipmentDetails.Destination_Country,
                                              sub.data)
                  ELSE coverzy_shipments
            /\ IF done.threw
               THEN /\ processingErrors' = Append(processingErrors,
                                                  [awb |-> awb, error |-> done.error.message])
                    /\ UNCHANGED results
               ELSE /\ results' = Append(results, [awb |-> awb, success |-> TRUE,
                                                   result |-> done.result])
                    /\ UNCHANGED processingErrors
    /\ j' = j + 1
    /\ UNCHANGED <<call, ret, http, forDate, variant, coverzy_settings, cron_error_logs, pc, settings,
                   awbNumbers, i, validShipments, invalidShipments, shipmentsToProcess,
                   caught, outcome, notifyLog, mailLog>>

\* Faulty variant of Summarize: a summary that could not be sent is thrown to the outer catch.
Summarize_ThrowOnSendFailure ==
    /\ pc = "processing"
    /\ j > Len(shipmentsToProcess)
    /\ \E readOk, sendOk \in BOOLEAN :
        IF SuccessRateReached(Len(results), Len(shipmentsToProcess))
        THEN LET r == sendDailySummaryEmail(coverzy_settings, readOk, sendOk) IN
             /\ notifyLog' = Notified("sendDailySummaryEmail", "summary", r)
             /\ mailLog' = Mailed("sendDailySummaryEmail", r)
             /\ IF r.success \/ r.skipped
                THEN /\ outcome' = ReturnedToCaller(
                                      [results |-> results,
                                       errors |-> ErrorsOf(invalidShipments) \o processingErrors,
                                       total |-> Len(awbNumbers),
                                       processed |-> Len(shipmentsToProcess),
                                       validFound |-> Len(validShipments)])
                     /\ pc' = "done"
                     /\ UNCHANGED caught
                ELSE /\ caught' = [message |-> "Failed to send daily summary email"]
                     /\ pc' = "catch"
                     /\ UNCHANGED outcome
        ELSE /\ readOk /\ sendOk
             /\ outcome' = ReturnedToCaller(
                              [results |-> results,
                               errors |-> ErrorsOf(invalidShipments) \o processingErrors,
                               total |-> Len(awbNumbers),
                               processed |-> Len(shipmentsToProcess),
                               validFound |-> Len(validShipments)])
             /\ pc' = "done"
             /\ UNCHANGED <<notifyLog, mailLog, caught>>
    /\ UNCHANGED <<call, ret, http, forDate, variant, coverzy_settings, coverzy_shipments, cron_error_logs,
                   settings, awbNumbers, i, validShipments, invalidShipments,
                   shipmentsToProcess, j, results, processingErrors, callLog>>

\* Faulty variant of Summarize: the returned error list leaves out the invalid verdicts.
Summarize_ProcessingErrorsOnly ==
    /\ pc = "processing"
    /\ j > Len(shipmentsToProcess)
    /\ \E readOk, sendOk \in BOOLEAN :
        IF SuccessRateReached(Len(results), Len(shipmentsToProcess))
        THEN LET r == sendDailySummaryEmail(coverzy_settings, readOk, sendOk) IN
             /\ notifyLog' = Notified("sendDailySummaryEmail", "summary", r)
             /\ mailLog' = Mailed("sendDailySummaryEmail", r)
        ELSE /\ readOk /\ sendOk
             /\ UNCHANGED <<notifyLog, mailLog>>
    /\ outcome' = ReturnedToCaller([results |-> results,
                                    errors |-> processingErrors,
                                    total |-> Len(awbNumbers),
                                    processed |-> Len(shipmentsToProcess),
                                    validFound |-> Len(validShipments)])
    /\ pc' = "done"
    /\ UNCHANGED <<call, ret, http, forDate, variant, coverzy_settings, coverzy_shipments, cron_error_logs,
                   settings, awbNumbers, i, validShipments, invalidShipments,
                   shipmentsToProcess, j, results, processingErrors, caught, callLog>>

\* After the processing loop: the success rate, the summary e-mail and the
\* returned result.
Summarize ==
    /\ pc = "processing"
    /\ j > Len(shipmentsToProcess)
    /\ \E readOk, sendOk \in BOOLEAN :
        IF SuccessRateReached(Len(results), Len(shipmentsToProcess))
        THEN LET r == sendDailySummaryEmail(coverzy_settings, readOk, sendOk) IN
             /\ notifyLog' = Notified("sendDailySummaryEmail", "summary", r)
             /\ mailLog' = Mailed("sendDailySummaryEmail", r)
        ELSE /\ readOk /\ sendOk
             /\ UNCHANGED <<notifyLog, mailLog>>
    /\ outcome' = ReturnedToCaller([results |-> results,
                                    errors |-> ErrorsOf(invalidShipments) \o processingErrors,
                                    total |-> Len(awbNumbers),
                                    processed |-> Len(shipmentsToProcess),
                                    validFound |-> Len(validShipments)])
    /\ pc' = "done"
    /\ UNCHANGED <<call, ret, http, forDate, variant, coverzy_settings, coverzy_shipments, cron_error_logs,
                   settings, awbNumbers, i, validShipments, invalidShipments,
                   shipmentsToProcess, j, results, processingErrors, caught, callLog>>

\* The outer catch: log cron_failure, alert, re-throw.
CatchCritical ==
    /\ pc = "catch"
    /\ \E insertOk, readOk, sendOk \in BOOLEAN :
        LET r == sendCronErrorEmail(coverzy_settings, readOk, sendOk) IN
        /\ cron_error_logs' = logErrorToDatabase(cron_error_logs, "cron_failure",
                                                 caught.message, insertOk)
        /\ notifyLog' = Notified("sendCronErrorEmail", "cron_failure", r)
        /\ mailLog' = Mailed("sendCronErrorEmail", r)
        /\ callLog' = Append(callLog, Called("logError", "cron_failure", insertOk))
    /\ outcome' = RaisedToCaller(caught)
    /\ pc' = "aborted"
    /\ UNCHANGED <<call, ret, http, forDate, variant, coverzy_settings, coverzy_shipments, settings,
                   awbNumbers, i, validShipments, invalidShipments, shipmentsToProcess, j,
                   results, processingErrors, caught>>

\* toggleEmailService: UPDATE ... SET email_enabled = ? on the latest row.
ToggleEmailService ==
    /\ Len(coverzy_settings) > 0
    /\ \E enabled \in BOOLEAN :
        /\ enabled # coverzy_settings[Len(coverzy_settings)].email_enabled
        /\ coverzy_settings' =
              [coverzy_settings EXCEPT ![Len(coverzy_settings)].email_enabled = enabled]
    /\ UNCHANGED <<call, ret, http, forDate, variant, coverzy_shipments, cron_error_logs, pc, settings,
                   awbNumbers, i, validShipments, invalidShipments, shipmentsToProcess, j,
                   results, processingErrors, caught, outcome, notifyLog, mailLog, callLog>>

Next ==
    \/ LoadSettings
    \/ FetchListing
    \/ ValidateNext
    \/ Cap
    \/ ProcessNext
    \/ Summarize
    \/ CatchCritical
    \/ ToggleEmailService

Spec == Init /\ [][Next]_vars

----------------------------------------------------------------------------
(* The explicit-date run: runCoverzyProcess with a date calls              *)
(* processShipmentsForDate, which validates and processes each shipment in  *)
(* one pass through processShipment.                                        *)

Threw(error) == [threw |-> TRUE, saved |-> FALSE, error |-> error]

\* processShipment, its validation part: the reason of the throw of the first
\* failing step, or "" when the shipment passes every rule.
processShipmentRejection(v, awb, detailRes, customerDetails, s) ==
    LET shipmentDetails == detailRes.data
        customerInfo == CustomerInfoOf(customerDetails)
    IN  IF ~detailRes.ok THEN LookupFailed
        ELSE IF ~isDestinationAllowed(shipmentDetails.Destination_Country, s.countries)
        THEN DestinationNotAllowed
        ELSE IF v = "B" /\ ~isServiceDestinationValid(shipmentDetails.Destination_Country,
                                                      shipmentDetails.Service_Type)
        THEN ServiceUnsupported
        ELSE IF ~(IF v = "A"
                  THEN isPickupTimeValid(shipmentDetails.Create_Pick_Up_Date,
                                         s.cutoffTime, s.cipTime)
                  ELSE isPickupTimeValidB(shipmentDetails.Create_Pick_Up_Date,
                                          s.cutoffTime, s.cipTime))
        THEN PickupOutOfWindow
        ELSE IF v = "B" /\ ~isShipmentValueValid(shipmentDetails.Package_Value,
                                                 s.minShipmentValueUsd, s.usdToInrRate)
        THEN ValueBelowThreshold
        ELSE IF ~isSupplierAllowed(customerInfo.company_name, s.suppliers)
        THEN SupplierNotAllowed
        ELSE ""

\* Faulty variant of processShipmentSubmit: every answer of the underwriting API is
\* saved, whatever its status and policy id.
processShipmentSubmit_SaveAlways(sub, dbOk) ==
    IF ~sub.ok
    THEN Threw(sub.error)
    ELSE IF dbOk
    THEN [threw |-> FALSE, saved |-> TRUE,
          result |-> [coverzyResponse |-> sub.data, savedToDatabase |-> TRUE,
                      error |-> ""]]
    ELSE Threw([message |-> DatabaseDown])

\* processShipment, after its validation: submission, and the upsert when
\* the answer has status success and a policy id.
processShipmentSubmit(sub, dbOk) ==
    IF ~sub.ok
    THEN Threw(sub.error)
    ELSE IF sub.data.status = "success" /\ sub.data.policyId # ""
    THEN IF dbOk
         THEN [threw |-> FALSE, saved |-> TRUE,
               result |-> [coverzyResponse |-> sub.data, savedToDatabase |-> TRUE,
                           error |-> ""]]
         ELSE Threw([message |-> DatabaseDown])
    ELSE [threw |-> FALSE, saved |-> FALSE,
          result |-> [coverzyResponse |-> sub.data, savedToDatabase |-> FALSE,
                      error |-> ResponseNotSuccessful]]

\* processShipment: what it returns or throws.
processShipment(v, awb, detailRes, customerDetails, s, sub, dbOk) ==
    LET rejection == processShipmentRejection(v, awb, detailRes, customerDetails, s)
    IN  IF rejection # "" THEN Threw([message |-> rejection])
        ELSE processShipmentSubmit(sub, dbOk)

\* Whether processShipment gets as far as its getCustomerDetails call.
ProcessReachesCustomerFetch(v, awb, detailRes, s) ==
    processShipmentRejection(v, awb, detailRes, FetchFailed, s) = SupplierNotAllowed

\* const settings = await getCoverzySettings(); a throw goes through the
\* function's catch to the caller.
ForDateLoadSettings ==
    /\ forDate.pc = "start"
    /\ \E readOk, insertOk \in BOOLEAN :
        LET got == getCoverzySettings(coverzy_settings, readOk) IN
        IF got.ok
        THEN /\ insertOk
             /\ forDate' = [forDate EXCEPT
                               !.settings = got.data,
                               !.pc = "listing",
                               !.callLog = Append(@, Called("settings", "", TRUE))]
             /\ UNCHANGED cron_error_logs
        ELSE /\ cron_error_logs' = logErrorToDatabase(cron_error_logs, "database_error",
                                                      got.error.message, insertOk)
             /\ forDate' = [forDate EXCEPT
                               !.outcome = RaisedToCaller(got.error),
                               !.pc = "aborted",
                               !.callLog = @ \o <<Called("settings", "", FALSE),
                                                  Called("logError", "database_error",
                                                         insertOk)>>]
    /\ UNCHANGED <<call, ret, http, variant, coverzy_settings, coverzy_shipments, pc, settings,
                   awbNumbers, i, validShipments, invalidShipments, shipmentsToProcess, j,
                   results, processingErrors, caught, outcome, notifyLog, mailLog, callLog>>

\* Faulty variant of ForDateFetchListingFrom: the raw listing is not capped.
ForDateFetchListingFrom_NoCap(listings) ==
    /\ forDate.pc = "listing"
    /\ \E res \in {Thrown(ListingFailed)} \cup { Fetched(l) : l \in listings } :
        IF ~res.ok
        THEN forDate' = [forDate EXCEPT
                            !.outcome = RaisedToCaller(res.error),
                            !.pc = "aborted",
                            !.callLog = Append(@, Called("listing", "", FALSE))]
        ELSE IF Len(res.data) = 0
        THEN forDate' = [forDate EXCEPT
                            !.outcome = ReturnedToCaller([results |-> <<>>, errors |-> <<>>,
                                                          total |-> 0, processed |-> 0]),
                            !.pc = "done",
                            !.callLog = Append(@, Called("listing", "", TRUE))]
        ELSE forDate' = [forDate EXCEPT
                            !.awbNumbers = res.data,
                            !.limitedAwbNumbers = res.data,
                            !.pc = "processing",
                            !.callLog = Append(@, Called("listing", "", TRUE))]
    /\ UNCHANGED <<call, ret, http, variant, coverzy_settings, coverzy_shipments, cron_error_logs,
                   pc, settings, awbNumbers, i, validShipments, invalidShipments,
                   shipmentsToProcess, j, results, processingErrors, caught, outcome,
                   notifyLog, mailLog, callLog>>

\* awbNumbers = await getDailyShipmentsData(date), the empty-listing return
\* and the cap of the raw listing; a throw goes through the function's catch
\* to the caller.
ForDateFetchListingFrom(listings) ==
    /\ forDate.pc = "listing"
    /\ \E res \in {Thrown(ListingFailed)} \cup { Fetched(l) : l \in listings } :
        IF ~res.ok
        THEN forDate' = [forDate EXCEPT
                            !.outcome = RaisedToCaller(res.error),
                            !.pc = "aborted",
                            !.callLog = Append(@, Called("listing", "", FALSE))]
        ELSE IF Len(res.data) = 0
        THEN forDate' = [forDate EXCEPT
                            !.outcome = ReturnedToCaller([results |-> <<>>, errors |-> <<>>,
                                                          total |-> 0, processed |-> 0]),
                            !.pc = "done",
                            !.callLog = Append(@, Called("listing", "", TRUE))]
        ELSE forDate' = [forDate EXCEPT
                            !.awbNumbers = res.data,
                            !.limitedAwbNumbers =
                                SliceFirst(res.data, forDate.settings.maxShipments),
                            !.pc = "processing",
                            !.callLog = Append(@, Called("listing", "", TRUE))]
    /\ UNCHANGED <<call, ret, http, variant, coverzy_settings, coverzy_shipments, cron_error_logs,
                   pc, settings, awbNumbers, i, validShipments, invalidShipments,
                   shipmentsToProcess, j, results, processingErrors, caught, outcome,
                   notifyLog, mailLog, callLog>>

ForDateFetchListing == ForDateFetchListingFrom(Listings)

\* One iteration of the loop over limitedAwbNumbers: processShipment inside
\* the loop's try/catch.  The platform answers the detail and customer
\* fetches of a shipment with one of detailAnswers[awb], customerAnswers[awb]
\* (TRUE: data, FALSE: a failure); mapAnswers, submitAnswers and dbAnswers are
\* the possible outcomes of the payload mapping's customer fetch, of the
\* submission and of the upsert.
ForDateProcessNextWhere(detailAnswers, customerAnswers, mapAnswers, submitAnswers, dbAnswers) ==
    /\ forDate.pc = "processing"
    /\ forDate.k <= Len(forDate.limitedAwbNumbers)
    /\ \E detailOk \in detailAnswers[forDate.limitedAwbNumbers[forDate.k]] :
        LET awb == forDate.limitedAwbNumbers[forDate.k]
            detailRes == IF detailOk THEN Fetched(ShipmentAPI(awb)) ELSE FetchFailed
        IN
        \E reached \in {detailOk /\ ProcessReachesCustomerFetch(variant, awb, detailRes,
                                                                  forDate.settings)} :
        \E custOk \in (IF reached THEN customerAnswers[awb] ELSE {TRUE}) :
        LET custRes == IF custOk
                       THEN Fetched(CustomerAPI(detailRes.data.Customer_ID))
                       ELSE FetchFailed
        IN
        \E passed \in {processShipmentRejection(variant, awb, detailRes, custRes,
                                                 forDate.settings) = ""} :
        \E mapCustOk \in (IF passed THEN mapAnswers ELSE {TRUE}),
           sub \in (IF passed THEN submitAnswers
                    ELSE {Thrown("Request failed with status code 500")}) :
        LET submitted == passed /\ sub.ok /\ sub.data.status = "success"
                                /\ sub.data.policyId # ""
        IN
        \E dbOk \in (IF submitted THEN dbAnswers ELSE {TRUE}) :
        \E done \in {processShipment(variant, awb, detailRes, custRes, forDate.settings,
                                      sub, dbOk)} :
            /\ coverzy_shipments' =
                  IF done.saved
                  THEN saveShipmentToDatabase(coverzy_shipments, awb,
                                              CustomerInfoOf(custRes).company_name,
                                              detailRes.data.Destination_Country,
                                              sub.data)
                  ELSE coverzy_shipments
            /\ forDate' = [forDate EXCEPT
                  !.k = @ + 1,
                  !.results = IF done.threw THEN @
                              ELSE Append(@, [awb |-> awb, success |-> TRUE,
                                              result |-> done.result]),
                  !.errors = IF done.threw
                             THEN Append(@, [awb |-> awb, error |-> done.error.message])
                             ELSE @,
                  !.callLog = @
                      \o <<Called("process", awb, ~done.threw),
                           Called("detail", awb, detailOk)>>
                      \o (IF reached THEN <<Called("customer", awb, custOk)>> ELSE <<>>)
                      \o (IF passed
                          THEN <<Called("customer", awb, mapCustOk),
                                 Called("submit", awb, sub.ok)>>
                          ELSE <<>>)
                      \o (IF passed /\ sub.ok
                          THEN <<Called("response", awb, submitted)>> ELSE <<>>)
                      \o (IF submitted THEN <<Called("upsert", awb, dbOk)>> ELSE <<>>)]
    /\ UNCHANGED <<call, ret, http, variant, coverzy_settings, cron_error_logs, pc, settings,
                   awbNumbers, i, validShipments, invalidShipments, shipmentsToProcess, j,
                   results, processingErrors, caught, outcome, notifyLog, mailLog, callLog>>

AnyAnswer == [awb \in Catalogue |-> BOOLEAN]

ForDateProcessNext ==
    ForDateProcessNextWhere(AnyAnswer, AnyAnswer, BOOLEAN, SubmitOutcomes, BOOLEAN)

\* After the loop: the returned result.
ForDateReturn ==
    /\ forDate.pc = "processing"
    /\ forDate.k > Len(forDate.limitedAwbNumbers)
    /\ forDate' = [forDate EXCEPT
                      !.outcome = ReturnedToCaller([results |-> forDate.results,
                                                    errors |-> forDate.errors,
                                                    total |-> Len(forDate.awbNumbers),
                                                    processed |->
                                                        Len(forDate.limitedAwbNumbers)]),
                      !.pc = "done"]
    /\ UNCHANGED <<call, ret, http, variant, coverzy_settings, coverzy_shipments, cron_error_logs,
                   pc, settings, awbNumbers, i, validShipments, invalidShipments,
                   shipmentsToProcess, j, results, processingErrors, caught, outcome,
                   notifyLog, mailLog, callLog>>

NextForDate ==
    \/ ForDateLoadSettings
    \/ ForDateFetchListing
    \/ ForDateProcessNext
    \/ ForDateReturn

----------------------------------------------------------------------------
(* One run, started through either entry point: the scheduler's callback or *)
(* runCoverzyProcess without a date (processPreviousDayShipments), or        *)
(* runCoverzyProcess with a date (processShipmentsForDate).                  *)

EntryTables ==
    {<<>>} \cup
    { <<Row(<<US, GB>>, c, <<23,30,0>>, n, TRUE)>> :
        c \in { <<19,0,0>>, <<22,0,0>> }, n \in 0..MaxCap }

InitEntry ==
    /\ PureIdle
    /\ RunIdle
    /\ variant \in {"A", "B"}
    /\ coverzy_settings \in EntryTables

PreviousDayRun ==
    /\ forDate.pc = "start"
    /\ \/ LoadSettings
       \/ FetchListing
       \/ ValidateNext
       \/ Cap
       \/ ProcessNext
       \/ Summarize
       \/ CatchCritical

ForDateRun ==
    /\ pc = "start"
    /\ NextForDate

NextEntry ==
    \/ PreviousDayRun
    \/ ForDateRun

SpecEntry == InitEntry /\ [][NextEntry]_vars

----------------------------------------------------------------------------
(* Both entry points on the same day's data: a scheduled run, and after it  *)
(* an explicit-date run that gets the same listing and the same answers to  *)
(* its detail and customer fetches.  Payload mapping, the answer of the     *)
(* underwriting API when it answers, and the upsert succeed; a submission   *)
(* may still throw.                                                         *)

\* In a run's calls: the customer fetch of the payload mapping, the answers
\* and the upserts went well.
SubmissionsHealthy(log) ==
    \A q \in 1..Len(log) :
        /\ log[q].op \in {"response", "upsert"} => log[q].ok
        /\ (log[q].op = "customer" /\ q > 1 /\ log[q-1].op # "detail") => log[q].ok

HealthySubmitOutcomes ==
    { sub \in SubmitOutcomes :
        sub.ok => (sub.data.status = "success" /\ sub.data.policyId # "") }

\* How the scheduled run's detail fetch of a shipment was answered, and the
\* customer fetch of its validation (the one right after the detail fetch).
ScheduledDetailAnswers ==
    [awb \in Catalogue |->
        { callLog[p].ok : p \in { p \in 1..Len(callLog) :
                                    callLog[p].op = "detail" /\ callLog[p].arg = awb } }]

ScheduledCustomerAnswers ==
    [awb \in Catalogue |->
        LET answers == { callLog[p].ok : p \in { p \in 2..Len(callLog) :
                                                    /\ callLog[p].op = "customer"
                                                    /\ callLog[p].arg = awb
                                                    /\ callLog[p-1].op = "detail" } }
        IN  IF answers = {} THEN BOOLEAN ELSE answers]

ScheduledThenForDate ==
    \/ /\ forDate.pc = "start"
       /\ \/ LoadSettings
          \/ FetchListing
          \/ ValidateNext
          \/ Cap
          \/ ProcessNext /\ SubmissionsHealthy(callLog)'
          \/ Summarize
    \/ /\ pc = "done"
       /\ \/ ForDateLoadSettings
          \/ ForDateFetchListingFrom({awbNumbers})
          \/ ForDateProcessNextWhere(ScheduledDetailAnswers, ScheduledCustomerAnswers,
                                     {TRUE}, HealthySubmitOutcomes, {TRUE})
          \/ ForDateReturn

NextCompare == ScheduledThenForDate

InitCompare == InitEntry

SpecCompare == InitCompare /\ [][NextCompare]_vars

----------------------------------------------------------------------------
(* The scheduler and the manual trigger together: the callback of           *)
(* cron.schedule starts processPreviousDayShipments, runCoverzyProcess with *)
(* a date starts processShipmentsForDate, and neither looks at whether the  *)
(* other is running.  Both are async functions on one event loop, so their  *)
(* steps interleave at the awaits.  The listings have at most one shipment. *)

ShortListings == { l \in Listings : Len(l) <= 1 }

NextOverlap ==
    \/ LoadSettings
    \/ FetchListingFrom(ShortListings)
    \/ ValidateNext
    \/ Cap
    \/ ProcessNext
    \/ Summarize
    \/ CatchCritical
    \/ ForDateLoadSettings
    \/ ForDateFetchListingFrom(ShortListings)
    \/ ForDateProcessNext
    \/ ForDateReturn

InitOverlap == InitEntry

SpecOverlap == InitOverlap /\ [][NextOverlap]_vars

\* The same two runs when the underwriting API issues a new policy for a
\* shipment it is sent a second time: the manual run's submissions are
\* answered with another policy id and amount than the scheduled run's.
ReissuedSubmitOutcomes ==
    { Thrown("Request failed with status code 500"),
      Fetched([status |-> "success", policyId |-> "POL-2", amount |-> 250]) }

NextOverlapStore ==
    \/ LoadSettings
    \/ FetchListingFrom(ShortListings)
    \/ ValidateNext
    \/ Cap
    \/ ProcessNext
    \/ Summarize
    \/ CatchCritical
    \/ ForDateLoadSettings
    \/ ForDateFetchListingFrom(ShortListings)
    \/ ForDateProcessNextWhere(AnyAnswer, AnyAnswer, BOOLEAN, ReissuedSubmitOutcomes, BOOLEAN)
    \/ ForDateReturn

SpecOverlapStore == InitEntry /\ [][NextOverlapStore]_vars

----------------------------------------------------------------------------
(* The document URL: updateShipmentPdfUrl of the settings controller is     *)
(* called by an HTTP client at any moment, while a scheduled run and after  *)
(* it a manual run of the same day write the store.                         *)

\* updateShipmentPdfUrl: the status it answers with and the table afterwards.
\* 400 when a field is missing; 500 when the connection or a statement
\* fails; 404 when no row has the policy id; else view_pdf of every row with
\* that policy id is set and the answer is 200.
updateShipmentPdfUrl(rows, policy_id, url, dbOk) ==
    IF policy_id = "" \/ url = ""
    THEN [status |-> 400, rows |-> rows]
    ELSE IF ~dbOk
    THEN [status |-> 500, rows |-> rows]
    ELSE IF ~\E k \in 1..Len(rows) : rows[k].policy_id = policy_id
    THEN [status |-> 404, rows |-> rows]
    ELSE [status |-> 200,
          rows |-> [k \in 1..Len(rows) |->
                      IF rows[k].policy_id = policy_id
                      THEN [rows[k] EXCEPT !.view_pdf = url]
                      ELSE rows[k]]]

\* One request to updateShipmentPdfUrl, with a body that lacks a field or
\* has both; call and ret keep the last request and its answer.
UpdateShipmentPdfUrl ==
    /\ \E body \in { [policy_id |-> "", url |-> "https://docs.example/policy.pdf"],
                     [policy_id |-> "POL-1", url |-> ""],
                     [policy_id |-> "POL-1", url |-> "https://docs.example/policy.pdf"] },
          dbOk \in BOOLEAN :
        LET done == updateShipmentPdfUrl(coverzy_shipments, body.policy_id, body.url, dbOk)
        IN  /\ coverzy_shipments' = done.rows
            /\ call' = [fn |-> "updateShipmentPdfUrl", policy_id |-> body.policy_id,
                        url |-> body.url]
            /\ ret' = [status |-> done.status]
    /\ UNCHANGED <<http, forDate, variant, coverzy_settings, cron_error_logs, pc, settings,
                   awbNumbers, i, validShipments, invalidShipments, shipmentsToProcess, j,
                   results, processingErrors, caught, outcome, notifyLog, mailLog, callLog>>

NextDocument ==
    \/ /\ forDate.pc = "start"
       /\ \/ LoadSettings
          \/ FetchListingFrom(ShortListings)
          \/ ValidateNext
          \/ Cap
          \/ ProcessNext
          \/ Summarize
          \/ CatchCritical
    \/ /\ pc \in {"done", "aborted"}
       /\ \/ ForDateLoadSettings
          \/ ForDateFetchListingFrom(ShortListings)
          \/ ForDateProcessNextWhere(AnyAnswer, AnyAnswer, BOOLEAN,
                                     ReissuedSubmitOutcomes, BOOLEAN)
          \/ ForDateReturn
    \/ UpdateShipmentPdfUrl

SpecDocument == InitEntry /\ [][NextDocument]_vars

----------------------------------------------------------------------------
(* The scheduled run to its end: the event loop resumes the async function  *)
(* whenever the promise it awaits has settled, so a step that is possible    *)
(* is eventually taken.                                                     *)

SpecScheduledFair == InitEntry /\ [][PreviousDayRun]_vars /\ WF_vars(PreviousDayRun)

----------------------------------------------------------------------------
(* The scheduled run while the settings API is used: updateAllSettings      *)
(* rewrites the latest row of coverzy_settings at any moment.  Payload       *)
(* mapping, the answer of the underwriting API when it answers, and the      *)
(* upsert succeed; a submission may still throw.                             *)

\* Request bodies of updateAllSettings that pass its required-fields check.
SettingsUpdates ==
    { [supplier_names |-> <<Other>>, destination_countries |-> <<FR>>,
       max_shipments |-> 1, cutoff_time |-> <<22,0,0>>, cip_time |-> <<23,0,0>>,
       email_enabled |-> TRUE],
      [supplier_names |-> <<Acme>>, destination_countries |-> <<US, GB>>,
       max_shipments |-> 1, cutoff_time |-> <<0,0,0>>, cip_time |-> <<23,59,0>>,
       email_enabled |-> FALSE] }

\* updateAllSettings: UPDATE coverzy_settings SET ... ORDER BY created_at DESC
\* LIMIT 1; with no row nothing is updated (404).  The recipient column it
\* writes (admin_email) is not the one the notifier reads.
UpdateAllSettings ==
    /\ Len(coverzy_settings) > 0
    /\ \E body \in SettingsUpdates :
        coverzy_settings' =
            [coverzy_settings EXCEPT ![Len(coverzy_settings)] =
                [@ EXCEPT !.supplier_names = body.supplier_names,
                          !.destination_countries = body.destination_countries,
                          !.max_shipments = body.max_shipments,
                          !.cutoff_time = body.cutoff_time,
                          !.cip_time = body.cip_time,
                          !.email_enabled = body.email_enabled]]
    /\ UNCHANGED <<call, ret, http, forDate, variant, coverzy_shipments, cron_error_logs, pc,
                   settings, awbNumbers, i, validShipments, invalidShipments,
                   shipmentsToProcess, j, results, processingErrors, caught, outcome,
                   notifyLog, mailLog, callLog>>

UpdateTables ==
    { <<Row(<<US, GB>>, c, <<23,30,0>>, MaxCap, TRUE)>> : c \in { <<19,0,0>>, <<22,0,0>> } }

InitUpdate ==
    /\ PureIdle
    /\ RunIdle
    /\ variant \in {"A", "B"}
    /\ coverzy_settings \in UpdateTables

NextUpdate ==
    \/ LoadSettings
    \/ FetchListing
    \/ ValidateNext
    \/ Cap
    \/ ProcessNext /\ SubmissionsHealthy(callLog)'
    \/ Summarize
    \/ CatchCritical
    \/ UpdateAllSettings

SpecUpdate == InitUpdate /\ [][NextUpdate]_vars

----------------------------------------------------------------------------
(* The scheduled run of the cutoff/CIP generation on one day's data:        *)
(* countries US and GB, window 19:00:00 to 23:30:00, supplier ACME, at most  *)
(* two shipments, and the listing AWB1, AWB2, AWB3.                          *)

ScenarioTable == <<Row(<<US, GB>>, <<19,0,0>>, <<23,30,0>>, 2, TRUE)>>

ScenarioListing == <<"AWB1", "AWB2", "AWB3">>

InitScenario ==
    /\ PureIdle
    /\ RunIdle
    /\ variant = "A"
    /\ coverzy_settings = ScenarioTable

NextScenario ==
    \/ LoadSettings
    \/ FetchListingFrom({ScenarioListing})
    \/ ValidateNext
    \/ Cap
    \/ ProcessNext
    \/ Summarize
    \/ CatchCritical

SpecScenario == InitScenario /\ [][NextScenario]_vars

----------------------------------------------------------------------------
(* The pure validation functions on their own *)

DbIdle ==
    /\ variant = "A"
    /\ coverzy_settings = <<>>

NextValidate ==
    CallValidateShipmentOnly /\ UNCHANGED <<dbVars, runVars>>

InitValidate == ValidateCalled /\ RunIdle /\ DbIdle

SpecValidate == InitValidate /\ [][NextValidate]_vars

NextPickup ==
    CallIsPickupTimeValid /\ UNCHANGED <<dbVars, runVars>>

InitPickup == PickupCalled /\ RunIdle /\ DbIdle

SpecPickup == InitPickup /\ [][NextPickup]_vars

NextDestination ==
    CallIsDestinationAllowed /\ UNCHANGED <<dbVars, runVars>>

InitDestination == DestinationCalled /\ RunIdle /\ DbIdle

SpecDestination == InitDestination /\ [][NextDestination]_vars

NextPickupB ==
    CallIsPickupTimeValidB /\ UNCHANGED <<dbVars, runVars>>

InitPickupB == PickupCalledB /\ RunIdle /\ DbIdle

SpecPickupB == InitPickupB /\ [][NextPickupB]_vars

----------------------------------------------------------------------------
(* The result store on its own: repeated saveShipmentToDatabase calls *)

MaxUpserts == 3

UpsertArguments ==
    { [awb |-> a, supplierName |-> x[1], destinationCountry |-> x[2],
       coverzyResponse |-> [status |-> "success", policyId |-> x[3], amount |-> x[4]]] :
        a \in {"AWB1", "AWB3"},
        x \in { <<AcmeCorp, US, "POL-1", 100>>,
                <<AcmeCorp, US, "POL-1", 250>>,
                <<AcmeLower, GB, "POL-2", 250>> } }

\* One call of saveShipmentToDatabase; when the execute fails it throws and
\* the table is as before.
SaveShipment ==
    /\ Len(callLog) < MaxUpserts
    /\ \E a \in UpsertArguments, dbOk \in BOOLEAN :
        /\ coverzy_shipments' =
              IF dbOk
              THEN saveShipmentToDatabase(coverzy_shipments, a.awb, a.supplierName,
                                          a.destinationCountry, a.coverzyResponse)
              ELSE coverzy_shipments
        /\ callLog' = Append(callLog, Called("upsert", a, dbOk))
    /\ UNCHANGED <<call, ret, http, forDate, variant, coverzy_settings, cron_error_logs, pc, settings,
                   awbNumbers, i, validShipments, invalidShipments, shipmentsToProcess, j,
                   results, processingErrors, caught, outcome, notifyLog, mailLog>>

NextStore == SaveShipment

InitStore == PureIdle /\ RunIdle /\ DbIdle

SpecStore == InitStore /\ [][NextStore]_vars

----------------------------------------------------------------------------
(* The scheduled run await by await: getDailyShipmentsData,                 *)
(* getShipmentDetails, getCustomerDetails and sendToCovrzyAPI each begin     *)
(* with await delay(500) and then await their axios request.  The answers    *)
(* of one loop iteration are collected in http; the step of the run that     *)
(* uses them follows once the iteration has no request left to make.         *)

\* The answers received so far in the iteration <<pc, i, j>> the run is in.
HttpAnswers == IF http.key = <<pc, i, j>> THEN http.answers ELSE <<>>

\* The function the run calls next in its current iteration, "" when the
\* iteration has no request left: the listing; the detail and, when the rules
\* before the supplier rule pass, the customer of validateShipmentOnly; the
\* customer of mapShipmentDetailsToPayload and the submission.
NextRequest ==
    CASE pc = "listing" -> IF HttpAnswers = <<>> THEN "listing" ELSE ""
      [] pc = "validating" /\ i <= Len(awbNumbers) ->
            IF HttpAnswers = <<>> THEN "detail"
            ELSE IF /\ Len(HttpAnswers) = 1
                    /\ HttpAnswers[1].ok
                    /\ ReachesCustomerFetch(variant, awbNumbers[i],
                                            Fetched(ShipmentAPI(awbNumbers[i])), settings)
                 THEN "customer"
                 ELSE ""
      [] pc = "processing" /\ j <= Len(shipmentsToProcess) ->
            IF HttpAnswers = <<>> THEN "customer"
            ELSE IF Len(HttpAnswers) = 1 THEN "submit"
            ELSE ""
      [] OTHER -> ""

\* Faulty variant of PaceDelay: the function makes its request at once, without the delay.
PaceDelay_NoWait ==
    /\ http.at = "idle"
    /\ NextRequest # ""
    /\ http' = [http EXCEPT !.at = "request", !.op = NextRequest, !.key = <<pc, i, j>>,
                            !.answers = HttpAnswers,
                            !.outstanding = @ + 1, !.issued = @ + 1]
    /\ UNCHANGED <<call, ret, variant, coverzy_settings, coverzy_shipments, cron_error_logs,
                   pc, settings, awbNumbers, i, validShipments, invalidShipments,
                   shipmentsToProcess, j, results, processingErrors, caught, outcome,
                   notifyLog, mailLog, callLog, forDate>>

\* await delay(500) at the head of the called function.
PaceDelay ==
    /\ http.at = "idle"
    /\ NextRequest # ""
    /\ http' = [http EXCEPT !.at = "delay", !.op = NextRequest, !.key = <<pc, i, j>>,
                            !.answers = HttpAnswers]
    /\ UNCHANGED <<call, ret, variant, coverzy_settings, coverzy_shipments, cron_error_logs,
                   pc, settings, awbNumbers, i, validShipments, invalidShipments,
                   shipmentsToProcess, j, results, processingErrors, caught, outcome,
                   notifyLog, mailLog, callLog, forDate>>

\* The delay has resolved: axios.get / axios.post is called and awaited.
IssueRequest ==
    /\ http.at = "delay"
    /\ http' = [http EXCEPT !.at = "request", !.outstanding = @ + 1, !.issued = @ + 1]
    /\ UNCHANGED <<call, ret, variant, coverzy_settings, coverzy_shipments, cron_error_logs,
                   pc, settings, awbNumbers, i, validShipments, invalidShipments,
                   shipmentsToProcess, j, results, processingErrors, caught, outcome,
                   notifyLog, mailLog, callLog, forDate>>

\* The request resolves or rejects, and the function returns or throws.
RequestReturns ==
    /\ http.at = "request"
    /\ \E ok \in BOOLEAN :
        http' = [http EXCEPT !.at = "idle", !.outstanding = @ - 1,
                             !.answers = Append(@, [op |-> http.op, ok |-> ok])]
    /\ UNCHANGED <<call, ret, variant, coverzy_settings, coverzy_shipments, cron_error_logs,
                   pc, settings, awbNumbers, i, validShipments, invalidShipments,
                   shipmentsToProcess, j, results, processingErrors, caught, outcome,
                   notifyLog, mailLog, callLog, forDate>>

\* The requests a step of the run has just logged are the ones answered in
\* its iteration, with the same outcomes.
AnswersUsed ==
    LET new == SubSeq(callLog', Len(callLog) + 1, Len(callLog'))
        external == SelectSeq(new, LAMBDA c : c.op \in {"listing", "detail", "customer", "submit"})
    IN  /\ Len(external) = Len(HttpAnswers)
        /\ \A k \in 1..Len(external) :
              /\ external[k].op = HttpAnswers[k].op
              /\ external[k].ok = HttpAnswers[k].ok

\* A step of the run, once its iteration's requests have all been answered.
PacedStep ==
    /\ http.at = "idle"
    /\ NextRequest = ""
    /\ \/ LoadSettings
       \/ FetchListing
       \/ ValidateNext
       \/ Cap
       \/ ProcessNext
       \/ Summarize
       \/ CatchCritical
    /\ AnswersUsed

NextPacing ==
    \/ PaceDelay
    \/ IssueRequest
    \/ RequestReturns
    \/ PacedStep

SpecPacing == InitEntry /\ [][NextPacing]_vars

----------------------------------------------------------------------------
(* Claims *)

\* Rule 1 as the specification words it: case-insensitive membership.
InAllowList(destination, allowList) ==
    \E k \in 1..Len(allowList) : ToUpperCase(allowList[k]) = ToUpperCase(destination)

\* C1: validateShipmentOnly stops at the first failing rule, and the
\* destination rule comes first: a fetched shipment whose destination is not
\* in the allow-list is invalid with the destination-not-allowed reason,
\* whatever its service, pickup time, value and supplier are.
C1_DestinationReasonFirst ==
    (/\ call.fn = "validateShipmentOnly"
     /\ ret.done
     /\ call.detail.ok
     /\ ~InAllowList(call.detail.data.Destination_Country, call.settings.countries))
    => ret.value = Invalid(call.awb, DestinationNotAllowed)

\* C1 witness: a shipment that fails the destination rule and the supplier
\* rule has been validated and reports the destination reason.
C1_Witness ==
    /\ call.fn = "validateShipmentOnly"
    /\ ret.done
    /\ call.detail.ok
    /\ call.detail.data.Destination_Country = FR
    /\ call.customer.ok
    /\ call.customer.data.company_name = Other
    /\ ~isSupplierAllowed(Other, call.settings.suppliers)
    /\ ret.value.error = DestinationNotAllowed

\* C2: in the cutoff/CIP-window generation isPickupTimeValid is true exactly
\* when (cutoff <= cip and cutoff <= pickup <= cip) or (cutoff > cip and
\* (pickup >= cutoff or pickup <= cip)), in minutes since midnight; for the
\* window 23:00 -> 02:00 the valid pickups are 23:00..23:59 and 00:00..02:00.
C2_PickupWindowWraps ==
    (call.fn = "isPickupTimeValid" /\ ret.done) =>
        LET p == call.pickup.time[1] * 60 + call.pickup.time[2]
            c == call.cutoff[1] * 60 + call.cutoff[2]
            e == call.cip[1] * 60 + call.cip[2]
        IN  /\ ret.value = (\/ (c <= e /\ c <= p /\ p <= e)
                            \/ (c > e /\ (p >= c \/ p <= e)))
            /\ (call.cutoff = <<23,0,0>> /\ call.cip = <<2,0,0>>) =>
                  (ret.value = (p \in 1380..1439 \/ p \in 0..120))

\* C2 witness: a pickup after midnight inside the wrapping window was judged valid.
C2_Witness ==
    /\ call.fn = "isPickupTimeValid"
    /\ ret.done
    /\ call.cutoff = <<23,0,0>>
    /\ call.cip = <<2,0,0>>
    /\ call.pickup.time = <<2,0,59>>
    /\ ret.value = TRUE

AwbsOf(seq) == [k \in 1..Len(seq) |-> seq[k].awb]

\* The shipments handed to processValidatedShipment so far, in order.
Handed ==
    LET handed == SelectSeq(callLog, LAMBDA c : c.op = "process")
    IN  [k \in 1..Len(handed) |-> handed[k].arg]

Position(awb) == CHOOSE k \in 1..Len(awbNumbers) : awbNumbers[k] = awb

Ops(op) == { q \in 1..Len(callLog) : callLog[q].op = op }

\* C3: the shipments handed to the processing phase are the first
\* min(maxShipments, #valid) elements of the valid list, and the valid list
\* keeps the order of the listing.
C3_CapIsPrefixOfValid ==
    LET valid == AwbsOf(validShipments)
        n == IF settings.maxShipments <= Len(valid) THEN settings.maxShipments ELSE Len(valid)
    IN  /\ \A p, q \in 1..Len(valid) : p < q => Position(valid[p]) < Position(valid[q])
        /\ pc = "processing" =>
              /\ AwbsOf(shipmentsToProcess) = SubSeq(valid, 1, n)
              /\ Handed = SubSeq(valid, 1, Len(Handed))
        /\ (pc = "done" /\ Len(valid) > 0) => Handed = SubSeq(valid, 1, n)

\* C3 witness: a finished run with two valid shipments listed out of
\* catalogue order and a cap of one processed exactly the first of them.
C3_Witness ==
    /\ pc = "done"
    /\ awbNumbers = <<"AWB3", "AWB1">>
    /\ AwbsOf(validShipments) = <<"AWB3", "AWB1">>
    /\ settings.maxShipments = 1
    /\ Handed = <<"AWB3">>

LatestEmailEnabled ==
    /\ Len(coverzy_settings) > 0
    /\ coverzy_settings[Len(coverzy_settings)].email_enabled

\* C5: while the stored email_enabled flag is false no send function reaches
\* the mail transport: every step that calls transporter.sendMail starts in a
\* state whose latest settings row has the flag set.
C5_NoMailWhileDisabled ==
    [][mailLog' # mailLog => LatestEmailEnabled]_vars

\* C5 witness: a failure alert was requested with the flag off, the send
\* function skipped it, and nothing has reached the transport.
C5_Witness ==
    /\ ~LatestEmailEnabled
    /\ mailLog = <<>>
    /\ \E k \in 1..Len(notifyLog) :
          notifyLog[k].fn = "sendCronErrorEmail" /\ notifyLog[k].returned.skipped

\* C6: no submission to the underwriting API happens before every listed
\* identifier has its verdict: once a submit has been made the validation loop
\* is over, and no validation follows a submit.
C6_ValidateAllBeforeSubmit ==
    /\ Ops("submit") # {} =>
          /\ Len(validShipments) + Len(invalidShipments) = Len(awbNumbers)
          /\ Cardinality(Ops("validate")) = Len(awbNumbers)
    /\ \A p \in Ops("submit"), q \in Ops("validate") : q < p

\* C6 witness: a run listed a valid shipment before an invalid one and
\* submitted the valid one after both verdicts.
C6_Witness ==
    /\ awbNumbers = <<"AWB1", "AWB2">>
    /\ Ops("submit") # {}
    /\ Len(invalidShipments) = 1

\* C7: a capped shipment whose underwriting answer lacks status success or a
\* policy id is a per-shipment failure: not upserted, recorded in the error
\* list, and not among the run's succeeded shipments.
C7_NonSuccessIsFailure ==
    \A q \in Ops("response") :
        ~callLog[q].ok =>
            /\ \A k \in 1..Len(coverzy_shipments) :
                  coverzy_shipments[k].shipment_id # callLog[q].arg
            /\ \E k \in 1..Len(processingErrors) : processingErrors[k].awb = callLog[q].arg
            /\ \A k \in 1..Len(results) : results[k].awb # callLog[q].arg

\* The shipments of the run that were successfully underwritten and saved.
Underwritten == { k \in 1..Len(results) : results[k].result.savedToDatabase }

SummaryRequested == \E k \in 1..Len(notifyLog) : notifyLog[k].fn = "sendDailySummaryEmail"
AlertRequested == \E k \in 1..Len(notifyLog) : notifyLog[k].fn = "sendCronErrorEmail"

\* C8: at the end of a run the summary is requested exactly when the capped
\* list is non-empty and 5 * (successfully underwritten) >= 4 * (capped), and
\* below that rate neither a summary nor an alert is requested.
C8_SummaryIffEightyPercent ==
    pc = "done" =>
        LET capped == Len(shipmentsToProcess)
            reached == capped > 0 /\ 5 * Cardinality(Underwritten) >= 4 * capped
        IN  /\ SummaryRequested <=> reached
            /\ ~reached => ~AlertRequested

ListingThrew == \E q \in Ops("listing") : ~callLog[q].ok

NoShipmentWork ==
    Ops("detail") \cup Ops("customer") \cup Ops("validate") \cup Ops("process")
        \cup Ops("submit") \cup Ops("upsert") = {}

ApiErrorLogged ==
    \E k \in 1..Len(cron_error_logs) : cron_error_logs[k].error_type = "api_error"

ApiErrorAlertRequested ==
    \E k \in 1..Len(notifyLog) :
        notifyLog[k].fn = "sendCronErrorEmail" /\ notifyLog[k].category = "api_error"

\* C9 as stated: when the listing fetch throws, an api_error entry is
\* appended to the error log, an api_error alert is requested, the error is
\* re-raised, and no per-shipment work happens.
C9_ListingFailureAlwaysLogged ==
    ListingThrew =>
        /\ ApiErrorLogged
        /\ ApiErrorAlertRequested
        /\ NoShipmentWork
        /\ pc \in {"catch", "aborted"}
        /\ pc = "aborted" => outcome = RaisedToCaller([message |-> ListingFailed])

\* C9 amended: when the listing fetch throws, logErrorToDatabase is called
\* with api_error and the entry is in the log exactly when that insert
\* succeeded; the alert is requested, the error re-raised, and no
\* per-shipment work happens.
C9_ListingFailureLoggedIfInsertOk ==
    ListingThrew =>
        /\ \E q \in Ops("logError") :
              /\ callLog[q].arg = "api_error"
              /\ ApiErrorLogged <=> callLog[q].ok
        /\ ApiErrorAlertRequested
        /\ NoShipmentWork
        /\ pc \in {"catch", "aborted"}
        /\ pc = "aborted" => outcome = RaisedToCaller([message |-> ListingFailed])

\* C9 witness: a run aborted by a listing failure, with its api_error entry
\* logged and the error raised to the caller.
C9_Witness ==
    /\ ListingThrew
    /\ pc = "aborted"
    /\ ApiErrorLogged
    /\ ApiErrorAlertRequested
    /\ outcome.kind = "raised"

\* C10: a throw while processing one shipment (submission or upsert) never
\* aborts the run: the run stays in the processing phase or finishes, the
\* failed shipment is in the error list, and a finished run has processed
\* every capped shipment in order and returned its result.
C10_ProcessingFailureContained ==
    /\ Ops("process") # {} => pc \in {"processing", "done"}
    /\ \A q \in Ops("process") :
          ~callLog[q].ok =>
              \E k \in 1..Len(processingErrors) : processingErrors[k].awb = callLog[q].arg
    /\ (pc = "done" /\ Len(validShipments) > 0) =>
          /\ Handed = AwbsOf(shipmentsToProcess)
          /\ outcome.kind = "returned"
          /\ \A k \in 1..Len(processingErrors) :
                \E e \in 1..Len(outcome.value.errors) :
                    outcome.value.errors[e] = processingErrors[k]

\* C10 witness: the first capped shipment failed (its submission threw), the
\* second was still processed and saved, and the run returned.
C10_Witness ==
    /\ pc = "done"
    /\ Len(shipmentsToProcess) = 2
    /\ Len(processingErrors) = 1
    /\ processingErrors[1].awb = shipmentsToProcess[1].awb
    /\ Len(results) = 1
    /\ results[1].awb = shipmentsToProcess[2].awb
    /\ results[1].result.savedToDatabase
    /\ outcome.kind = "returned"

\* The successful upserts so far, oldest first.
Upserted == SelectSeq(callLog, LAMBDA c : c.op = "upsert" /\ c.ok)

\* C4: saveShipmentToDatabase is an idempotent upsert keyed by shipment id:
\* after any sequence of successful upserts the table has exactly one row for
\* each shipment id upserted and no other row, and that row carries the
\* supplier, destination, policy id and amount of the latest upsert for the id.
C4_UpsertKeepsLatestPerId ==
    /\ \A p, q \in 1..Len(coverzy_shipments) :
          p # q => coverzy_shipments[p].shipment_id # coverzy_shipments[q].shipment_id
    /\ { coverzy_shipments[k].shipment_id : k \in 1..Len(coverzy_shipments) }
          = { Upserted[k].arg.awb : k \in 1..Len(Upserted) }
    /\ \A k \in 1..Len(coverzy_shipments) :
          LET row == coverzy_shipments[k]
              last == CHOOSE u \in 1..Len(Upserted) :
                          /\ Upserted[u].arg.awb = row.shipment_id
                          /\ \A v \in 1..Len(Upserted) :
                                Upserted[v].arg.awb = row.shipment_id => v <= u
              a == Upserted[last].arg
          IN  /\ row.supplier_name = a.supplierName
              /\ row.destination_country = a.destinationCountry
              /\ row.policy_id = a.coverzyResponse.policyId
              /\ row.amount = a.coverzyResponse.amount

\* C4 witness: the same shipment id was upserted twice with different
\* amounts, and the table holds one row with the second amount.
C4_Witness ==
    /\ Len(Upserted) = 2
    /\ Upserted[1].arg.awb = "AWB1"
    /\ Upserted[2].arg.awb = "AWB1"
    /\ Upserted[1].arg.coverzyResponse.amount = 100
    /\ Upserted[2].arg.coverzyResponse.amount = 250
    /\ Len(coverzy_shipments) = 1
    /\ coverzy_shipments[1].amount = 250

Reasons ==
    {DestinationNotAllowed, ServiceUnsupported, PickupOutOfWindow, ValueBelowThreshold,
     SupplierNotAllowed, LookupFailed}

\* C11: per-shipment validation outcomes never reach the error log: a
\* rejection, or a throw of the detail fetch, gives the shipment an invalid
\* verdict with a reason (lookup-failed for the throw), no entry is appended to
\* cron_error_logs, no alert is requested, and the loop goes on to the next
\* listed identifier until every one has its verdict.
C11_ValidationNeverEscalates ==
    /\ \A q \in Ops("detail") :
          ~callLog[q].ok =>
              \E k \in 1..Len(invalidShipments) :
                  invalidShipments[k] = Invalid(callLog[q].arg, LookupFailed)
    /\ \A k \in 1..Len(invalidShipments) :
          ~invalidShipments[k].valid /\ invalidShipments[k].error \in Reasons
    /\ Ops("validate") # {} =>
          /\ cron_error_logs = <<>>
          /\ ~AlertRequested
          /\ pc \in {"validating", "processing", "done"}
          /\ Len(validShipments) + Len(invalidShipments) = Cardinality(Ops("validate"))
          /\ pc # "validating" => Cardinality(Ops("validate")) = Len(awbNumbers)

\* C11 witness: the detail fetch of the first listed shipment threw, the
\* second was rejected for its destination, the run finished, and the error
\* log is empty.
C11_Witness ==
    /\ pc = "done"
    /\ Len(invalidShipments) = 2
    /\ invalidShipments[1].error = LookupFailed
    /\ invalidShipments[2].error = DestinationNotAllowed
    /\ cron_error_logs = <<>>
    /\ notifyLog = <<>>

\* The calls and the results of the run, whichever entry point started it.
RunCalls == callLog \o forDate.callLog
RunResults == results \o forDate.results

\* C12: every row of coverzy_shipments belongs to a shipment id for which a
\* submission returned status success with a non-empty policy id, and carries
\* the policy id and amount of that response; a shipment that never had such a
\* response has no row.
C12_RowsOnlyFromSuccessfulSubmissions ==
    /\ \A k \in 1..Len(coverzy_shipments) :
          LET row == coverzy_shipments[k] IN
          /\ \E q \in 1..Len(RunCalls) :
                /\ RunCalls[q].op = "response"
                /\ RunCalls[q].arg = row.shipment_id
                /\ RunCalls[q].ok
          /\ \E r \in 1..Len(RunResults) :
                LET response == RunResults[r].result.coverzyResponse IN
                /\ RunResults[r].awb = row.shipment_id
                /\ response.status = "success"
                /\ response.policyId # ""
                /\ row.policy_id = response.policyId
                /\ row.amount = response.amount
    /\ \A awb \in Catalogue :
          (\A q \in 1..Len(RunCalls) :
              ~(RunCalls[q].op = "response" /\ RunCalls[q].arg = awb /\ RunCalls[q].ok))
          => \A k \in 1..Len(coverzy_shipments) : coverzy_shipments[k].shipment_id # awb

\* C12 witness: an explicit-date run listed a rejected shipment and one whose
\* answer was not successful, then a later state has exactly the row of the
\* one successfully underwritten shipment.
C12_Witness ==
    /\ forDate.pc = "done"
    /\ forDate.awbNumbers = <<"AWB2", "AWB1">>
    /\ Len(forDate.limitedAwbNumbers) = 2
    /\ Len(coverzy_shipments) = 1
    /\ coverzy_shipments[1].shipment_id = "AWB1"
    /\ coverzy_shipments[1].policy_id = "POL-1"
    /\ \E e \in 1..Len(forDate.errors) : forDate.errors[e].awb = "AWB2"

ForDateListingThrew ==
    \E q \in 1..Len(forDate.callLog) :
        forDate.callLog[q].op = "listing" /\ ~forDate.callLog[q].ok

\* C14: in both entry points a listing fetch failure is systemic: when the
\* exception has reached the caller, an entry has been appended to
\* cron_error_logs and a failure alert has been requested.
C14_ListingFailureSystemicInBothEntries ==
    /\ (ListingThrew /\ outcome.kind = "raised") =>
          (cron_error_logs # <<>> /\ AlertRequested)
    /\ (ForDateListingThrew /\ forDate.outcome.kind = "raised") =>
          (cron_error_logs # <<>> /\ AlertRequested)

Submitted(log) == { log[q].arg : q \in { q \in 1..Len(log) : log[q].op = "submit" } }

\* The explicit-date run's detail fetches, and the customer fetches of its
\* validation (those right after a detail fetch), were answered as in the
\* scheduled run.
FetchesAgree ==
    \A q \in 1..Len(forDate.callLog) :
        LET c == forDate.callLog[q] IN
        /\ c.op = "detail" => \E p \in 1..Len(callLog) : callLog[p] = c
        /\ (c.op = "customer" /\ q > 1 /\ forDate.callLog[q-1].op = "detail") =>
              \E p \in 2..Len(callLog) : callLog[p] = c /\ callLog[p-1].op = "detail"

\* C13: for the same listing, settings and fetch answers, the explicit-date
\* run gives every shipment the verdict the scheduled run gave it and submits
\* the valid shipments among the first maxShipments listed; the scheduled run
\* submits the first maxShipments valid shipments; the former set is a subset
\* of the latter, and a proper one when an invalid shipment lies within the
\* first maxShipments listed and a valid one beyond them.
C13_ForDateSubmitsSubsetOfScheduled ==
    (pc = "done" /\ forDate.pc = "done") =>
        LET n == settings.maxShipments
            valid == { validShipments[k].awb : k \in 1..Len(validShipments) }
            firstListed == { awbNumbers[k] : k \in 1..Min(n, Len(awbNumbers)) }
            firstValid == { validShipments[k].awb : k \in 1..Min(n, Len(validShipments)) }
            invalidEarly == \E k \in 1..Min(n, Len(awbNumbers)) : awbNumbers[k] \notin valid
            validLate == \E k \in (n+1)..Len(awbNumbers) : awbNumbers[k] \in valid
        IN  /\ forDate.awbNumbers = awbNumbers
            /\ forDate.settings = settings
            /\ FetchesAgree
            /\ Submitted(forDate.callLog) = valid \cap firstListed
            /\ Submitted(callLog) = firstValid
            /\ Submitted(forDate.callLog) \subseteq Submitted(callLog)
            /\ (invalidEarly /\ validLate) =>
                  /\ Submitted(forDate.callLog) # Submitted(callLog)
                  /\ Cardinality(Submitted(forDate.callLog))
                        < Cardinality(Submitted(callLog))

\* C13 witness: with a cap of one and the listing [AWB2, AWB1], AWB2 being
\* rejected and AWB1 valid, the scheduled run submitted AWB1 and the
\* explicit-date run submitted nothing.
C13_Witness ==
    /\ pc = "done"
    /\ forDate.pc = "done"
    /\ settings.maxShipments = 1
    /\ awbNumbers = <<"AWB2", "AWB1">>
    /\ forDate.awbNumbers = awbNumbers
    /\ Submitted(callLog) = {"AWB1"}
    /\ Submitted(forDate.callLog) = {}
    /\ Len(forDate.errors) = 1

\* A run is in flight from its first step until it returns or raises.
InFlight(position) == position \notin {"start", "done", "aborted"}

\* C15: at most one pipeline run is in flight at any time: a manual run does
\* not execute while the scheduled run is executing, nor the other way round.
C15_AtMostOneRunInFlight ==
    ~(InFlight(pc) /\ InFlight(forDate.pc))

\* How the validation of a listed shipment was answered, from the run's
\* calls: its detail fetch, and the customer fetch right after it if any.
DetailAnswered(awb) ==
    LET q == CHOOSE q \in Ops("detail") : callLog[q].arg = awb
    IN  IF callLog[q].ok THEN Fetched(ShipmentAPI(awb)) ELSE FetchFailed

CustomerAnswered(awb) ==
    LET q == CHOOSE q \in Ops("detail") : callLog[q].arg = awb
    IN  IF q < Len(callLog) /\ callLog[q+1].op = "customer" /\ ~callLog[q+1].ok
        THEN FetchFailed
        ELSE Fetched(CustomerAPI(ShipmentAPI(awb).Customer_ID))

\* Both lists hold, for each shipment, the verdict of the rules under s.
JudgedUnder(s) ==
    /\ \A k \in 1..Len(validShipments) :
          validShipments[k] =
              validateShipmentOnly(variant, validShipments[k].awb,
                                   DetailAnswered(validShipments[k].awb),
                                   CustomerAnswered(validShipments[k].awb), s)
    /\ \A k \in 1..Len(invalidShipments) :
          invalidShipments[k] =
              validateShipmentOnly(variant, invalidShipments[k].awb,
                                   DetailAnswered(invalidShipments[k].awb),
                                   CustomerAnswered(invalidShipments[k].awb), s)

\* C16: the rules and the cap of a run come from the one snapshot loaded at
\* its start: once loaded, the run's settings object never changes, whatever
\* updateAllSettings does to the table, every verdict of the run is the
\* verdict under that snapshot, and the capped list is cut at its
\* maxShipments.
C16_SettingsSnapshotPerRun ==
    /\ [][pc # "start" => settings' = settings]_vars
    /\ [](pc \in {"validating", "processing", "done"} => JudgedUnder(settings))
    /\ [](pc = "processing" =>
            shipmentsToProcess = SliceFirst(validShipments, settings.maxShipments))

\* C16 witness: the table was rewritten while the run was in flight (its
\* latest row no longer matches the run's snapshot: other countries, cap 1),
\* and the run, past its validation, has two valid shipments under the
\* snapshot's rules and processes both under the snapshot's cap of two.
C16_Witness ==
    /\ pc = "processing"
    /\ j = 2
    /\ coverzy_settings[1].destination_countries = <<FR>>
    /\ coverzy_settings[1].max_shipments = 1
    /\ settings.countries = <<US, GB>>
    /\ settings.maxShipments >= 2
    /\ Len(validShipments) = 2
    /\ Len(shipmentsToProcess) = 2

\* Every detail fetch so far, and every customer fetch of a validation (the
\* one right after a detail fetch), returned data.
ValidationFetchesAnswered ==
    /\ \A q \in Ops("detail") : callLog[q].ok
    /\ \A q \in Ops("customer") : callLog[q-1].op = "detail" => callLog[q].ok

\* C17: under the cutoff/CIP generation with countries [US, GB], window
\* 19:00:00-23:30:00, supplier ACME and maxShipments 2, the listing
\* [AWB1 (US, 20:00, ACME Corp), AWB2 (FR), AWB3 (GB, 21:00, Acme)] gives
\* valid = [AWB1, AWB3] in that order, invalid = [AWB2] with the
\* destination-not-allowed reason, and both valid shipments are processed.
C17_ScenarioTwoValidOneRejected ==
    ((pc \in {"processing", "done"}) /\ ValidationFetchesAnswered) =>
        /\ settings.countries = <<US, GB>>
        /\ settings.maxShipments = 2
        /\ awbNumbers = <<"AWB1", "AWB2", "AWB3">>
        /\ AwbsOf(validShipments) = <<"AWB1", "AWB3">>
        /\ invalidShipments = <<Invalid("AWB2", DestinationNotAllowed)>>
        /\ AwbsOf(shipmentsToProcess) = <<"AWB1", "AWB3">>
        /\ Handed = SubSeq(<<"AWB1", "AWB3">>, 1, Len(Handed))
        /\ pc = "done" => Handed = <<"AWB1", "AWB3">>

\* C17 witness: the run of the scenario finished with every fetch answered,
\* both valid shipments underwritten and saved, and AWB2 reported as rejected.
C17_Witness ==
    /\ pc = "done"
    /\ ValidationFetchesAnswered
    /\ Handed = <<"AWB1", "AWB3">>
    /\ Len(coverzy_shipments) = 2
    /\ outcome.kind = "returned"
    /\ outcome.value.errors = <<[awb |-> "AWB2", error |-> DestinationNotAllowed]>>
    /\ outcome.value.validFound = 2

\* C18: the cutoff-only isPickupTimeValid accepts a pickup exactly when its
\* hour*60+minute is strictly less than the cutoff's hour*60+minute; with
\* cutoff 23:00:00, 22:59:59 is valid and 23:00:01 is not; the verdict is
\* the one given to the same pickup with any other seconds.
C18_CutoffOnlyStrictOnHourMinute ==
    (call.fn = "isPickupTimeValidB" /\ ret # Pending) =>
        LET t == call.pickup.time
            c == call.cutoff
        IN  /\ ret.value = (t[1] * 60 + t[2] < c[1] * 60 + c[2])
            /\ (c = <<23,0,0>> /\ t = <<22,59,59>>) => ret.value = TRUE
            /\ (c = <<23,0,0>> /\ t = <<23,0,1>>) => ret.value = FALSE
            /\ \A sec \in 0..59 :
                   ret.value = isPickupTimeValidB(Pickup(t[1], t[2], sec), c, call.cip)

\* C18 witness: the pickup at 23:00:01 was judged against the cutoff 23:00:00
\* and refused.
C18_Witness ==
    /\ call.fn = "isPickupTimeValidB"
    /\ call.cutoff = <<23,0,0>>
    /\ call.pickup.time = <<23,0,1>>
    /\ ret = Returned(FALSE)

\* The call validated a fetched shipment under the cutoff-only generation and
\* the shipment passes the destination, service and pickup-time rules.
ReachesValueRule ==
    /\ call.fn = "validateShipmentOnly"
    /\ call.variant = "B"
    /\ ret.done
    /\ call.detail.ok
    /\ isDestinationAllowed(call.detail.data.Destination_Country, call.settings.countries)
    /\ isServiceDestinationValid(call.detail.data.Destination_Country,
                                 call.detail.data.Service_Type)
    /\ isPickupTimeValidB(call.detail.data.Create_Pick_Up_Date, call.settings.cutoffTime,
                          call.settings.cipTime)

\* C19: in the value-validating generation a shipment that passes the
\* destination, service and pickup-time rules is rejected with the
\* value-below-threshold reason exactly when declaredValue / rate < minimum,
\* i.e. declaredValue < minimum * rate for the positive rates of the
\* settings; 1000 at rate 83 against 20 is rejected with that reason.
C19_ValueBelowThresholdExactly ==
    ReachesValueRule =>
        LET v == call.detail.data.Package_Value
            m == call.settings.minShipmentValueUsd
            r == call.settings.usdToInrRate
        IN  /\ r > 0
            /\ (ret.value = Invalid(call.awb, ValueBelowThreshold)) <=> (v < m * r)
            /\ (v = 1000 /\ r = 83 /\ m = 20)
                  => ret.value = Invalid(call.awb, ValueBelowThreshold)

\* C19 witness: a shipment worth 1000 that passes the first three rules was
\* validated at rate 83 against the minimum 20 and rejected for its value.
C19_Witness ==
    /\ ReachesValueRule
    /\ call.detail.data.Package_Value = 1000
    /\ call.settings.usdToInrRate = 83
    /\ call.settings.minShipmentValueUsd = 20
    /\ ret.value.error = ValueBelowThreshold

\* C20: isDestinationAllowed is a case-insensitive membership test: it
\* returns true exactly when some allow-list entry equals the destination
\* after both are case-folded, for every casing of the destination and of
\* the allow-list entries (destination 'US' against the entry 'us' included).
C20_CaseInsensitiveMembership ==
    (call.fn = "isDestinationAllowed" /\ ret.done) =>
        ret.value = InAllowList(call.destination, call.allowList)

\* The shipment ids whose processValidatedShipment call threw, in order.
FailedProcessing ==
    LET failed == SelectSeq(callLog, LAMBDA c : c.op = "process" /\ ~c.ok)
    IN  [k \in 1..Len(failed) |-> failed[k].arg]

OriginalErrors == { [message |-> m] : m \in {ListingFailed, NoSettingsFound, DatabaseDown} }

SettingsThrew == \E q \in Ops("settings") : ~callLog[q].ok

\* C22: the notifier never changes how the run completes.  A send that cannot
\* be made (settings unreadable, service off, transport failing) comes back
\* as a failure value; once the summary has been requested the run is done
\* and has returned the result built from its own lists, and an aborted run
\* re-raises the error of the step that failed, whatever the sends returned.
C22_NotifierNeverChangesCompletion ==
    /\ \A k \in 1..Len(notifyLog) :
          LET r == notifyLog[k].returned IN
          /\ r.success \in BOOLEAN
          /\ ~r.transport => ~r.success
    /\ \A k \in 1..Len(mailLog) :
          ~mailLog[k].delivered =>
              \E n \in 1..Len(notifyLog) :
                  notifyLog[n].fn = mailLog[k].fn /\ ~notifyLog[n].returned.success
    /\ SummaryRequested =>
          /\ pc = "done"
          /\ outcome = ReturnedToCaller([results |-> results,
                                         errors |-> ErrorsOf(invalidShipments)
                                                      \o processingErrors,
                                         total |-> Len(awbNumbers),
                                         processed |-> Len(shipmentsToProcess),
                                         validFound |-> Len(validShipments)])
    /\ AlertRequested =>
          /\ pc \in {"catch", "aborted"}
          /\ caught \in OriginalErrors
          /\ ListingThrew => caught.message = ListingFailed
          /\ ~ListingThrew => SettingsThrew /\ caught.message # ListingFailed
    /\ pc = "aborted" => outcome = RaisedToCaller(caught)

\* C22 witness: the summary reached the mail transport, which failed; the
\* send function returned success false and the run returned its result.
C22_Witness ==
    /\ pc = "done"
    /\ \E k \in 1..Len(notifyLog) :
          /\ notifyLog[k].fn = "sendDailySummaryEmail"
          /\ notifyLog[k].returned.transport
          /\ ~notifyLog[k].returned.success
    /\ outcome.kind = "returned"
    /\ Len(outcome.value.results) > 0

CronFailureLogged ==
    \E k \in 1..Len(cron_error_logs) : cron_error_logs[k].error_type = "cron_failure"

CronFailureAlertRequested ==
    \E k \in 1..Len(notifyLog) :
        notifyLog[k].fn = "sendCronErrorEmail" /\ notifyLog[k].category = "cron_failure"

\* C23: in the scheduled run a cron_failure entry or alert is produced only
\* for a failure that is neither a settings-load failure nor a listing
\* failure: a run aborted at the settings load logs no cron_failure entry and
\* raises no cron_failure alert, and a run aborted by a listing failure has
\* its api_error alert but no cron_failure entry and no second alert.
C23_CronFailureOnlyForUnexpected ==
    /\ SettingsThrew => ~CronFailureLogged /\ ~CronFailureAlertRequested
    /\ ListingThrew =>
          /\ ~CronFailureLogged
          /\ ~CronFailureAlertRequested
          /\ Len(notifyLog) <= 1

\* C24: the processing phase reuses the customer record resolved during
\* validation: the customer detail of a shipment is fetched at most once per
\* run, and only by the validation (right after the shipment's detail fetch),
\* never by processValidatedShipment and its payload mapping.
C24_CustomerFetchedOncePerRun ==
    /\ \A awb \in Catalogue :
          Cardinality({ q \in Ops("customer") : callLog[q].arg = awb }) <= 1
    /\ \A q \in Ops("customer") : q > 1 /\ callLog[q-1].op = "detail"

\* The requests the run has logged so far.
ExternalCalls == { q \in 1..Len(callLog) : callLog[q].op \in {"listing", "detail", "customer", "submit"} }

\* C25: within one run the external calls are strictly sequential and paced:
\* at most one request is outstanding at any moment, each request is issued
\* by the step that ends a pacing delay, that delay runs while no request is
\* outstanding (it starts after the previous call returned), and every
\* external call of the run is made this way.
C25_SequentialAndPaced ==
    /\ [](/\ http.outstanding \in {0, 1}
          /\ http.at = "request" <=> http.outstanding = 1
          /\ http.at = "delay" => http.outstanding = 0
          /\ http.issued = Cardinality(ExternalCalls) + Len(HttpAnswers) + http.outstanding)
    /\ [][http'.outstanding > http.outstanding =>
              (http.at = "delay" /\ http.outstanding = 0)]_vars

\* C25 witness: a finished run made nine requests (the listing, two
\* validations and two submissions with their customer fetches), none in
\* flight at the end.
C25_Witness ==
    /\ pc = "done"
    /\ http.issued = 9
    /\ Cardinality(ExternalCalls) = 9
    /\ http.outstanding = 0

\* The entries of a run's call log for one operation.
OpsIn(log, op) == { q \in 1..Len(log) : log[q].op = op }

\* Within a run with the settings s and the call log: no more submissions
\* and no more upserts than s.maxShipments, and no shipment id submitted twice.
WithinCap(log, s) ==
    /\ s.maxShipments >= 0
    /\ Cardinality(OpsIn(log, "submit")) <= s.maxShipments
    /\ Cardinality(OpsIn(log, "upsert")) <= s.maxShipments
    /\ \A p, q \in OpsIn(log, "submit") : log[p].arg = log[q].arg => p = q
    /\ s.maxShipments = 0 => OpsIn(log, "submit") = {}

\* C26: in a run of either entry point the number of underwriting
\* submissions and the number of upserts never exceed maxShipments, each
\* listed shipment id is submitted at most once, and with maxShipments = 0 no
\* submission is made.
C26_SubmissionsWithinCap ==
    /\ WithinCap(callLog, settings)
    /\ WithinCap(forDate.callLog, forDate.settings)

\* C26 witness: a scheduled run found two valid shipments under a cap of one
\* and finished with exactly one submission.
C26_Witness ==
    /\ pc = "done"
    /\ Len(validShipments) = 2
    /\ settings.maxShipments = 1
    /\ Cardinality(OpsIn(callLog, "submit")) = 1

RowIds(rows) == { rows[k].shipment_id : k \in 1..Len(rows) }

\* The row a successful processing of a shipment writes: everything its
\* upsert was called with.
RowWrittenFor(x) ==
    [shipment_id |-> x.awb,
     supplier_name |-> CustomerAPI(ShipmentAPI(x.awb).Customer_ID).company_name,
     destination_country |-> ShipmentAPI(x.awb).Destination_Country,
     policy_id |-> x.result.coverzyResponse.policyId,
     amount |-> x.result.coverzyResponse.amount,
     currency |-> "INR", view_pdf |-> ""]

\* C27: when a scheduled and a manual run overlap on the same shipment ids,
\* in any interleaving, the store never holds two rows for one id, and every
\* change of the store is one upsert writing its whole row: the row of that
\* id is then exactly that upsert's data and every other row is as before,
\* so that a row always equals the data of the upsert applied last.
C27_OverlappingUpsertsLastWins ==
    /\ [](\A p, q \in 1..Len(coverzy_shipments) :
             p # q => coverzy_shipments[p].shipment_id # coverzy_shipments[q].shipment_id)
    /\ [][coverzy_shipments' # coverzy_shipments =>
            \E x \in (IF results' # results THEN {results'[Len(results')]} ELSE {})
                   \cup (IF forDate'.results # forDate.results
                         THEN {forDate'.results[Len(forDate'.results)]} ELSE {}) :
                /\ RowIds(coverzy_shipments') = RowIds(coverzy_shipments) \cup {x.awb}
                /\ \A k \in 1..Len(coverzy_shipments') :
                      IF coverzy_shipments'[k].shipment_id = x.awb
                      THEN coverzy_shipments'[k] = RowWrittenFor(x)
                      ELSE \E o \in 1..Len(coverzy_shipments) :
                              coverzy_shipments[o] = coverzy_shipments'[k]]_vars

\* C27 witness: both runs finished after each upserted AWB1, the manual run
\* first; the store has the one row of the scheduled run's upsert.
C27_Witness ==
    /\ pc = "done"
    /\ forDate.pc = "done"
    /\ \E q \in OpsIn(callLog, "upsert") : callLog[q].arg = "AWB1" /\ callLog[q].ok
    /\ \E q \in OpsIn(forDate.callLog, "upsert") :
          forDate.callLog[q].arg = "AWB1" /\ forDate.callLog[q].ok
    /\ Len(coverzy_shipments) = 1
    /\ coverzy_shipments[1].policy_id = "POL-1"
    /\ coverzy_shipments[1].amount = 100

ListingFetched == \E q \in Ops("listing") : callLog[q].ok

\* C28: a scheduled run aborts only while loading settings or while listing:
\* a run on its way to the caller with an error has failed at one of the two
\* and has done no per-shipment work; once the listing has been fetched, no
\* failure of a detail fetch, customer fetch, submission, upsert or summary
\* aborts it, and the run eventually is done and has returned a result.
C28_AbortOnlyBeforeValidation ==
    /\ [](pc \in {"catch", "aborted"} =>
            /\ SettingsThrew \/ ListingThrew
            /\ ~ListingFetched
            /\ NoShipmentWork)
    /\ [](ListingFetched => outcome.kind # "raised")
    /\ ListingFetched ~> (pc = "done" /\ outcome.kind = "returned")

\* C28 witness: a run whose first shipment's detail fetch failed and whose
\* second shipment's upsert threw after a successful submission is done and
\* has returned.
C28_Witness ==
    /\ pc = "done"
    /\ outcome.kind = "returned"
    /\ \E q \in Ops("detail") : ~callLog[q].ok
    /\ \E q \in Ops("upsert") : ~callLog[q].ok
    /\ Len(processingErrors) = 1

\* The result a step of either run has just added to its results list.
ResultsAdded ==
    (IF results' # results THEN {results'[Len(results')]} ELSE {})
    \cup (IF forDate'.results # forDate.results
          THEN {forDate'.results[Len(forDate'.results)]} ELSE {})

\* C29: when the pipeline processes successfully a shipment id whose row has
\* a document URL stored by updateShipmentPdfUrl, the upsert leaves one row
\* for the id, with an empty document URL and the policy id and amount of
\* the new underwriting answer.
C29_UpsertResetsDocumentUrl ==
    [][\A x \in ResultsAdded :
          /\ x.result.savedToDatabase
          /\ \E k \in 1..Len(coverzy_shipments) :
                /\ coverzy_shipments[k].shipment_id = x.awb
                /\ coverzy_shipments[k].view_pdf # ""
          => /\ \E k \in 1..Len(coverzy_shipments') :
                   coverzy_shipments'[k].shipment_id = x.awb
             /\ \A k \in 1..Len(coverzy_shipments') :
                   coverzy_shipments'[k].shipment_id = x.awb
                   => /\ coverzy_shipments'[k].view_pdf = ""
                      /\ coverzy_shipments'[k].policy_id = x.result.coverzyResponse.policyId
                      /\ coverzy_shipments'[k].amount = x.result.coverzyResponse.amount]_vars

\* C29 witness: the scheduled run stored AWB1 under POL-1, a request set the
\* document URL of POL-1 and was answered 200, and the manual run then
\* upserted AWB1 again: the row has POL-2, 250 and no document URL.
C29_Witness ==
    /\ call = [fn |-> "updateShipmentPdfUrl", policy_id |-> "POL-1",
               url |-> "https://docs.example/policy.pdf"]
    /\ ret = [status |-> 200]
    /\ \E q \in OpsIn(callLog, "upsert") : callLog[q].arg = "AWB1" /\ callLog[q].ok
    /\ \E q \in OpsIn(forDate.callLog, "upsert") :
          forDate.callLog[q].arg = "AWB1" /\ forDate.callLog[q].ok
    /\ Len(coverzy_shipments) = 1
    /\ coverzy_shipments[1].shipment_id = "AWB1"
    /\ coverzy_shipments[1].policy_id = "POL-2"
    /\ coverzy_shipments[1].amount = 250
    /\ coverzy_shipments[1].view_pdf = ""

\* For a finished run with call log log and returned value v: every shipment
\* whose submission was answered with success and a policy id is among the
\* results with a row of that policy id, or in the error list; and a
\* shipment whose upsert threw is in the error list with the upsert's error
\* and not among the results.
IssuedPoliciesAccounted(log, v) ==
    /\ \A q \in OpsIn(log, "response") :
          log[q].ok =>
            \/ \E r \in 1..Len(v.results) :
                  /\ v.results[r].awb = log[q].arg
                  /\ v.results[r].result.savedToDatabase
                  /\ \E k \in 1..Len(coverzy_shipments) :
                        /\ coverzy_shipments[k].shipment_id = log[q].arg
                        /\ coverzy_shipments[k].policy_id =
                              v.results[r].result.coverzyResponse.policyId
            \/ \E e \in 1..Len(v.errors) : v.errors[e].awb = log[q].arg
    /\ \A q \in OpsIn(log, "upsert") :
          ~log[q].ok =>
            /\ \E e \in 1..Len(v.errors) :
                  /\ v.errors[e].awb = log[q].arg
                  /\ v.errors[e].error = DatabaseDown
            /\ \A r \in 1..Len(v.results) : v.results[r].awb # log[q].arg

\* C30: at the end of a run through either entry point, every shipment the
\* underwriting API issued a policy for in that run has a row with that
\* policy id or is in the run's error list; a shipment whose upsert threw
\* after the submission is a processing failure and not a success.
C30_IssuedPolicyPersistedOrReported ==
    /\ (pc = "done" /\ outcome.kind = "returned")
          => IssuedPoliciesAccounted(callLog, outcome.value)
    /\ (forDate.pc = "done" /\ forDate.outcome.kind = "returned")
          => IssuedPoliciesAccounted(forDate.callLog, forDate.outcome.value)

\* C30 witness: a finished scheduled run in which one shipment was submitted,
\* got a policy, and its upsert threw; it is the run's one error and the
\* store has no row.
C30_Witness ==
    /\ pc = "done"
    /\ outcome.kind = "returned"
    /\ \E q \in OpsIn(callLog, "response") : callLog[q].ok
    /\ \E q \in OpsIn(callLog, "upsert") : ~callLog[q].ok
    /\ Len(outcome.value.errors) = 1
    /\ outcome.value.errors[1].error = DatabaseDown
    /\ outcome.value.results = <<>>
    /\ coverzy_shipments = <<>>

====
